---------------------------- MODULE Spec2Model ----------------------------
(***************************************************************************)
(* Workflow execution engine of vulnpoint-go                               *)
(* (src/internal/services/workflow_executor.go).                           *)
(*                                                                         *)
(* The model follows one execution: WorkflowExecutor.Execute creates the   *)
(* persisted record and starts the background task executeAsync, which     *)
(* sorts the graph, walks the order, gates and dispatches each node,       *)
(* writes progress to the record and ends with completed or failed.        *)
(*                                                                         *)
(* Go maps are iterated in an unspecified order.  Every place where the    *)
(* code ranges over a map and the order can change the outcome is a        *)
(* choice over all orders here.                                            *)
(*                                                                         *)
(* Formatted strings (fmt.Sprintf, fmt.Errorf) are tuples of their parts.  *)
(***************************************************************************)
EXTENDS Integers, Sequences, FiniteSets, TLC

(***************************************************************************)
(* Bounds of the model.                                                    *)
(***************************************************************************)
\* longest nodes array of a generated workflow
MaxNodes == 2

\* longest edges array of a generated workflow
MaxEdges == 2

(***************************************************************************)
(* Values shared by the whole model.                                       *)
(***************************************************************************)
\* a Go map with no key, a nil map, node.Data of a node without data
EmptyMap == [k \in {} |-> k]

\* does the Go map m hold key k
Has(m, k) == k \in DOMAIN m

\* m[k] = v on a Go map
Put(m, k, v) == [x \in (DOMAIN m) \cup {k} |-> IF x = k THEN v ELSE m[x]]

\* all orders in which a range over a map with key set S can run
Orders(S) ==
    {s \in [1..Cardinality(S) -> S] : \A i, j \in DOMAIN s : s[i] = s[j] => i = j}

MaxOf(S) == CHOOSE m \in S : \A x \in S : x <= m

(***************************************************************************)
(* Workflow definitions: WorkflowNode and WorkflowEdge.                    *)
(***************************************************************************)
NodeIdNames == <<"n1", "n2", "n3", "n4", "n5", "n6">>

NodeIds == {NodeIdNames[i] : i \in 1..MaxNodes}

IdIndex(id) == CHOOSE i \in 1..MaxNodes : NodeIdNames[i] = id

\* an id that no node declares; it stands for every such id in the edges
UndeclaredId == "ghost"

WorkflowEdge(source, target) == [source |-> source, target |-> target]

WorkflowNode(id, type, data) == [id |-> id, type |-> type, data |-> data]

\* The code only compares ids for equality and ranges over them in map order,
\* so the ids of a nodes array are named by first declaration: the k-th
\* distinct id declared is NodeIdNames[k].  An id may be declared twice.
IdSeqs ==
    UNION {{s \in [1..n -> NodeIds] :
              \A i \in 1..n :
                 IdIndex(s[i]) <= 1 + MaxOf({0} \cup {IdIndex(s[j]) : j \in 1..(i - 1)})}
           : n \in 0..MaxNodes}

\* the edges arrays over the ids of a nodes array: any edges between the
\* declared ids and the undeclared one, self-loops and repeated edges
\* included (parseWorkflow checks none of it)
EdgeSeqs(ids) ==
    LET ends == {ids[i] : i \in DOMAIN ids} \cup {UndeclaredId}
    IN  UNION {[1..n -> {WorkflowEdge(src, tgt) : src \in ends, tgt \in ends}]
               : n \in 0..MaxEdges}

(***************************************************************************)
(* topologicalSort (Kahn's algorithm).                                     *)
(***************************************************************************)
DeclaredIds(nodes) == {nodes[i].id : i \in DOMAIN nodes}

\* keys of the inDegree map after "Initialize" and "Build graph"
InDegreeKeys(nodes, edges) ==
    DeclaredIds(nodes) \cup {edges[i].target : i \in DOMAIN edges}

\* inDegree[edge.Target]++ for every edge, from 0
BuildInDegree(nodes, edges) ==
    [k \in InDegreeKeys(nodes, edges) |->
        Cardinality({i \in DOMAIN edges : edges[i].target = k})]

RECURSIVE TargetsOf(_, _)
\* adjList[source]: the targets of the edges leaving source, in edge order
TargetsOf(edges, source) ==
    IF edges = <<>> THEN <<>>
    ELSE (IF Head(edges).source = source THEN <<Head(edges).target>> ELSE <<>>)
         \o TargetsOf(Tail(edges), source)

RECURSIVE ReduceNeighbors(_, _, _)
\* the inner loop: inDegree[neighbor]--, and queue the neighbor at zero
ReduceNeighbors(neighbors, inDegree, queue) ==
    IF neighbors = <<>> THEN [inDegree |-> inDegree, queue |-> queue]
    ELSE LET n == Head(neighbors)
             d == [inDegree EXCEPT ![n] = @ - 1]
         IN  ReduceNeighbors(Tail(neighbors), d,
                             IF d[n] = 0 THEN Append(queue, n) ELSE queue)

RECURSIVE ProcessQueue(_, _, _, _)
\* the outer loop "for len(queue) > 0"
ProcessQueue(queue, inDegree, edges, result) ==
    IF queue = <<>> THEN result
    ELSE LET current == Head(queue)
             r == ReduceNeighbors(TargetsOf(edges, current), inDegree, Tail(queue))
         IN  ProcessQueue(r.queue, r.inDegree, edges, Append(result, current))

\* the ids the loop "for nodeID, degree := range inDegree" queues
ZeroInDegree(nodes, edges) ==
    {k \in InDegreeKeys(nodes, edges) : BuildInDegree(nodes, edges)[k] = 0}

SortError == <<"workflow contains cycles">>

\* topologicalSort once the range over inDegree has produced the queue
topologicalSortFrom(nodes, edges, queue) ==
    LET result == ProcessQueue(queue, BuildInDegree(nodes, edges), edges, <<>>)
    IN  IF Len(result) # Len(nodes)
        THEN [err |-> SortError, order |-> <<>>]
        ELSE [err |-> <<>>, order |-> result]

\* every value topologicalSort can return on these nodes and edges
topologicalSort(nodes, edges) ==
    {topologicalSortFrom(nodes, edges, q) : q \in Orders(ZeroInDegree(nodes, edges))}

(***************************************************************************)
(* Values of the handlers.                                                 *)
(*                                                                         *)
(* A handler returns (result, err).  err is the tuple of the parts of the  *)
(* message, <<>> for nil.  A result is a Go map, a record here; a key the  *)
(* code does not set is not in its domain.  executeNode is a set: one      *)
(* element for every way the collaborators (tools, user store, notifier,   *)
(* source control) can answer and every order a range over the prior       *)
(* results can take.                                                       *)
(***************************************************************************)
\* calls: the source-control and AI calls the handler made, recorded for
\* executeAutoFix
Ok(result) == [err |-> <<>>, result |-> result, calls |-> <<>>]

Fail(err) == [err |-> err, result |-> EmptyMap, calls |-> <<>>]

\* v, ok := m[k].(string): "" when the key is missing
Str(m, k) == IF Has(m, k) THEN m[k] ELSE ""

\* numbers keep their Go type: a literal 1 in a map[string]interface{} is an int
GoInt(n) == [goType |-> "int", n |-> n]

\* v, ok := m[k].(float64)
IsFloat64(m, k) == Has(m, k) /\ m[k].goType = "float64"

\* getTarget: the target of the first prior result, in map order, that has one
getTarget(previousResults) ==
    LET holders == {k \in DOMAIN previousResults : Has(previousResults[k], "target")}
    IN  IF holders = {} THEN {""}
        ELSE {previousResults[k].target : k \in holders}

\* how the mock output of a tool starts: the text mocks start with "[MOCK]",
\* the JSON mocks of nikto, trivy and infracost carry no marker
MockMarker(tool) ==
    IF tool \in {"nmap", "gobuster", "sqlmap", "wpscan", "kube-bench"} THEN "[MOCK]" ELSE ""

\* ScannerService.Run<Tool>: a mock output when the binary is not on PATH,
\* else the output of the tool or its failure
RunTool(tool, target) ==
    { [err |-> <<>>, output |-> [tool |-> tool, mock |-> TRUE, target |-> target,
                                 marker |-> MockMarker(tool)]],
      [err |-> <<>>, output |-> [tool |-> tool, mock |-> FALSE, target |-> target,
                                 marker |-> ""]],
      [err |-> <<tool, " execution failed">>, output |-> EmptyMap] }

executeTrigger(node) ==
    LET sourceUrl == Str(node.data, "sourceUrl")
        targetURL == IF sourceUrl = "" THEN "example.com" ELSE sourceUrl
    IN  {Ok([target |-> targetURL, type |-> "trigger"])}

\* the handlers that need a target and wrap the output of one tool:
\* executeNmap, executeGobuster, executeSqlmap, executeWpscan, executeTrivyIaC
ScanTarget(tool, scanner, noTarget, previousResults) ==
    UNION {IF target = "" THEN {Fail(<<noTarget>>)}
           ELSE {IF run.err # <<>> THEN Fail(run.err)
                 ELSE Ok([scanner |-> scanner, target |-> target,
                          output |-> run.output, status |-> "completed"])
                 : run \in RunTool(tool, target)}
           : target \in getTarget(previousResults)}

\* an nmap handler that records a failed scan in its result, as the
\* notifications do, and returns no error
executeNmapSoftFailure(node, previousResults) ==
    {IF out.err # <<>> THEN Ok([scanner |-> "nmap", status |-> "failed", error |-> out.err])
     ELSE out
     : out \in ScanTarget("nmap", "nmap", "no target found for nmap", previousResults)}

executeNmap(node, previousResults) ==
    ScanTarget("nmap", "nmap", "no target found for nmap", previousResults)

executeGobuster(node, previousResults) ==
    ScanTarget("gobuster", "gobuster", "no target found for gobuster", previousResults)

executeSqlmap(node, previousResults) ==
    ScanTarget("sqlmap", "sqlmap", "no target found for sqlmap", previousResults)

executeWpscan(node, previousResults) ==
    ScanTarget("wpscan", "wpscan", "no target found for wpscan", previousResults)

executeTrivyIaC(node, previousResults) ==
    ScanTarget("trivy", "trivy-iac", "no target found for IaC scan", previousResults)

\* executeNikto adds the parsed output as data when the output is JSON:
\* the mock output always is, the output of the tool may be
executeNikto(node, previousResults) ==
    UNION {IF o.err # <<>> THEN {o}
           ELSE (IF o.result.output.mock THEN {} ELSE {o})
                \cup {Ok([scanner |-> "nikto", target |-> o.result.target,
                          data |-> [host |-> o.result.target],
                          output |-> o.result.output, status |-> "completed"])}
           : o \in ScanTarget("nikto", "nikto", "no target found for nikto", previousResults)}

\* a kube-bench handler that scans "cluster" whatever target it is handed
executeKubeBenchCluster(node, previousResults) ==
    {IF run.err # <<>> THEN Fail(run.err)
     ELSE Ok([scanner |-> "kube-bench", target |-> "cluster",
              output |-> run.output, status |-> "completed"])
     : run \in RunTool("kube-bench", "cluster")}

executeKubeBench(node, previousResults) ==
    UNION {LET target == IF t = "" THEN "cluster" ELSE t
           IN  {IF run.err # <<>> THEN Fail(run.err)
                ELSE Ok([scanner |-> "kube-bench", target |-> target,
                         output |-> run.output, status |-> "completed"])
                : run \in RunTool("kube-bench", target)}
           : t \in getTarget(previousResults)}

executeEstimateCost(node, previousResults) ==
    UNION {IF target = "" THEN {Fail(<<"no target found for cost estimation">>)}
           ELSE {IF run.err # <<>> THEN Fail(run.err)
                 ELSE Ok([type |-> "estimate-cost", status |-> "completed",
                          output |-> run.output])
                 : run \in RunTool("infracost", target)}
           : target \in getTarget(previousResults)}

\* the simulated scanners return a fixed result and read no target
executeSecretScan(node, previousResults) ==
    {Ok([scanner |-> "gitleaks", status |-> "completed",
         output |-> [tool |-> "gitleaks", mock |-> FALSE, target |-> ""],
         data |-> [leaked_secrets |-> GoInt(1), files_scanned |-> GoInt(15)]])}

executeDependencyCheck(node, previousResults) ==
    {Ok([scanner |-> "trivy-sca", status |-> "completed",
         output |-> [tool |-> "trivy-sca", mock |-> FALSE, target |-> ""],
         data |-> [vulnerabilities_found |-> GoInt(1), severity_high |-> GoInt(1)]])}

executeSemgrep(node, previousResults) ==
    {Ok([scanner |-> "semgrep", status |-> "completed",
         output |-> [tool |-> "semgrep", mock |-> FALSE, target |-> ""]])}

executeContainerScan(node, previousResults) ==
    {Ok([scanner |-> "trivy-image", status |-> "completed",
         output |-> [tool |-> "trivy-image", mock |-> FALSE, target |-> ""]])}

executeFlowChart(node, previousResults) ==
    {Ok([type |-> "flow-chart", status |-> "completed", target |-> target])
     : target \in getTarget(previousResults)}

\* strconv.ParseFloat on the numeric strings of the model; 0 on anything else
Float64Literals == [s \in {"0", "1", "5"} |-> CASE s = "0" -> 0 [] s = "1" -> 1 [] s = "5" -> 5]

ParseFloat(s) == IF s \in DOMAIN Float64Literals THEN Float64Literals[s] ELSE 0

RECURSIVE SumOver(_, _, _)
\* actualValue += data[field] * factor over the prior results whose data
\* holds field as a float64
SumOver(previousResults, field, factor) ==
    IF DOMAIN previousResults = {} THEN 0
    ELSE LET k == CHOOSE x \in DOMAIN previousResults : TRUE
             r == previousResults[k]
             rest == [x \in (DOMAIN previousResults) \ {k} |-> previousResults[x]]
         IN  (IF Has(r, "data") /\ IsFloat64(r.data, field) THEN r.data[field].n * factor ELSE 0)
             + SumOver(rest, field, factor)

\* a loop that stops at the first prior result, in map order, and takes its
\* count whatever its Go type
ActualValuesFirstEntry(variable, previousResults) ==
    IF DOMAIN previousResults = {} THEN {0}
    ELSE {LET r == previousResults[k]
          IN  IF Has(r, "data") /\ Has(r.data, "leaked_secrets")
              THEN r.data.leaked_secrets.n ELSE 0
          : k \in DOMAIN previousResults}

\* the values the loop over the prior results can leave in actualValue: the
\* first monthly_cost, in map order, that parses, or a sum over all results
ActualValues(variable, previousResults) ==
    CASE variable = "cost" ->
           LET priced == {k \in DOMAIN previousResults :
                            /\ Has(previousResults[k], "monthly_cost")
                            /\ previousResults[k].monthly_cost \in DOMAIN Float64Literals}
           IN  IF priced = {} THEN {0}
               ELSE {ParseFloat(previousResults[k].monthly_cost) : k \in priced}
      [] variable = "vulnerabilities" ->
           {SumOver(previousResults, "vulnerabilities_found", 1)
            + SumOver(previousResults, "leaked_secrets", 1)}
      [] variable = "risk_score" -> {SumOver(previousResults, "severity_high", 5)}
      [] OTHER -> {0}

\* a comparison that lets every decision pass
EvaluateAlways(operator, actualValue, threshold) == TRUE

Evaluate(operator, actualValue, threshold) ==
    CASE operator = "gt" -> actualValue > threshold
      [] operator = "lt" -> actualValue < threshold
      [] operator = "eq" -> actualValue = threshold
      [] operator = "neq" -> actualValue # threshold
      [] OTHER -> TRUE

executeDecision(node, previousResults) ==
    LET variable == Str(node.data, "variable")
        operator == Str(node.data, "operator")
        threshold == ParseFloat(Str(node.data, "value"))
    IN  {Ok([type |-> "decision",
             decision_result |-> Evaluate(operator, actualValue, threshold),
             actual_value |-> actualValue,
             status |-> "completed"])
         : actualValue \in ActualValues(variable, previousResults)}

\* e.db.First(&user, "id = ?", userID): the user store's answers
Users ==
    {[found |-> FALSE, Email |-> "", AccessToken |-> ""]}
    \cup {[found |-> TRUE, Email |-> e, AccessToken |-> t] :
            e \in {"", "owner@example.com"}, t \in {"", "token"}}

\* the recipient: data.config.email, data.config.to, else (without a config
\* map) data.email, data.to, else the user's e-mail
Recipient(node, user) ==
    IF Has(node.data, "config")
    THEN IF Str(node.data.config, "email") # "" THEN node.data.config.email
         ELSE IF Str(node.data.config, "to") # "" THEN node.data.config.to
         ELSE user.Email
    ELSE IF Str(node.data, "email") # "" THEN node.data.email
         ELSE IF Str(node.data, "to") # "" THEN node.data.to
         ELSE user.Email

\* NotificationService.SendWorkflowReport succeeds or returns an error
SendOutcomes == {<<>>, <<"send failed">>}

\* a notification handler that hands a delivery failure back as its error
executeNotificationHardFailure(node, previousResults) ==
    {IF ~user.found
     THEN Ok([type |-> node.type, status |-> "failed", error |-> <<"user not found">>])
     ELSE IF Recipient(node, user) = ""
     THEN Ok([type |-> node.type, status |-> "failed",
              error |-> <<"no recipient email provided">>])
     ELSE IF sent # <<>>
     THEN Fail(sent)
     ELSE Ok([type |-> node.type, status |-> "sent"])
     : user \in Users, sent \in SendOutcomes}

executeNotification(node, previousResults) ==
    {IF ~user.found
     THEN Ok([type |-> node.type, status |-> "failed", error |-> <<"user not found">>])
     ELSE IF Recipient(node, user) = ""
     THEN Ok([type |-> node.type, status |-> "failed",
              error |-> <<"no recipient email provided">>])
     ELSE IF sent # <<>>
     THEN Ok([type |-> node.type, status |-> "failed", error |-> sent])
     ELSE Ok([type |-> node.type, status |-> "sent"])
     : user \in Users, sent \in SendOutcomes}

\* parseGitHubTarget and the parsing in executeGitHubIssue: owner and repo of
\* a target "https://github.com/<owner>/<repo>", else two empty strings
GitHubTargets ==
    [t \in {"https://github.com/acme/widgets"} |-> [owner |-> "acme", repo |-> "widgets"]]

parseGitHubTarget(target) ==
    IF target \in DOMAIN GitHubTargets THEN GitHubTargets[target]
    ELSE [owner |-> "", repo |-> ""]

\* GitHubService.CreateIssue succeeds or returns an error
CreateIssueOutcomes == {<<>>, <<"github api error">>}

executeGitHubIssue(node, previousResults) ==
    UNION {IF ~user.found THEN {Fail(<<"failed to fetch user: ", "record not found">>)}
           ELSE IF user.AccessToken = "" THEN {Fail(<<"user has no GitHub access token">>)}
           ELSE IF target = "" THEN {Fail(<<"no target found for issue creation">>)}
           ELSE LET parsed == parseGitHubTarget(target)
                    owner == IF Str(node.data, "owner") # "" THEN node.data.owner ELSE parsed.owner
                    repo == IF Str(node.data, "repo") # "" THEN node.data.repo ELSE parsed.repo
                IN  IF owner = "" \/ repo = ""
                    THEN {Fail(<<"could not determine GitHub owner/repo from target: ", target>>)}
                    ELSE {IF created # <<>>
                          THEN Fail(<<"failed to create github issue: ">> \o created)
                          ELSE Ok([type |-> "github-issue", status |-> "created",
                                   repository |-> <<owner, "/", repo>>])
                          : created \in CreateIssueOutcomes}
           : user \in Users, target \in getTarget(previousResults)}

\* the placeholder handlers return a fixed result
executePolicyCheck(node, previousResults) ==
    {Ok([type |-> "policy-check", status |-> "completed", passed |-> TRUE,
         output |-> [tool |-> "opa", mock |-> FALSE, target |-> ""]])}

executeGenerateIaC(node, previousResults) ==
    {Ok([type |-> "generate-iac", status |-> "completed",
         output |-> [tool |-> "generate-iac", mock |-> FALSE, target |-> ""]])}

executeDriftCheck(node, previousResults) ==
    {Ok([type |-> "drift-check", status |-> "completed", drift_detected |-> TRUE,
         output |-> [tool |-> "drift-check", mock |-> FALSE, target |-> ""]])}

\* AIService: every operation returns a text or an error
AIOutcomes == {<<>>, <<"ai provider error">>}

executeGenerateDocs(node, previousResults) ==
    {IF ai # <<>> THEN Fail(ai)
     ELSE Ok([type |-> "generate-docs", status |-> "completed",
              output |-> [tool |-> "ai-docs", mock |-> FALSE, target |-> ""]])
     : ai \in AIOutcomes}

\* the path the heuristic of executeAutoFix reads out of a scanner output:
\* the "file" of the gitleaks findings, the "path" of the semgrep results
InferredPath(output) ==
    CASE output.tool = "gitleaks" -> "README.md"
      [] output.tool = "semgrep" -> "main.go"
      [] OTHER -> ""

\* the paths the range over the prior results can stop at, "" when no
\* output names a file
InferredPaths(previousResults) ==
    LET found == {InferredPath(previousResults[k].output) :
                    k \in {x \in DOMAIN previousResults : Has(previousResults[x], "output")}}
                 \ {""}
    IN  IF found = {} THEN {""} ELSE found

\* an auto-fix that opens the pull request before it commits the fix
AutoFixCallsPullRequestFirst(node) ==
    <<"GetFileContent">>
    \o (IF Str(node.data, "vulnerability") = "" THEN <<"AnalyzeCode">> ELSE <<>>)
    \o <<"GenerateFix", "GetReference", "CreateBranch", "CreatePullRequest", "GetFileSHA",
         "UpdateFile">>

\* the collaborator calls of executeAutoFix, in the order the code makes them
AutoFixCalls(node) ==
    <<"GetFileContent">>
    \o (IF Str(node.data, "vulnerability") = "" THEN <<"AnalyzeCode">> ELSE <<>>)
    \o <<"GenerateFix", "GetReference", "CreateBranch", "GetFileSHA", "UpdateFile",
         "CreatePullRequest">>

\* the error executeAutoFix returns when the call fails
AutoFixErrors ==
    [call \in {"GetFileContent", "AnalyzeCode", "GenerateFix", "GetReference", "CreateBranch",
               "GetFileSHA", "UpdateFile", "CreatePullRequest"} |->
        CASE call = "GetFileContent" -> "failed to read file: "
          [] call = "AnalyzeCode" -> "analysis failed: "
          [] call = "GenerateFix" -> "failed to generate fix: "
          [] call = "GetReference" -> "failed to get base ref: "
          [] call = "CreateBranch" -> "failed to create branch: "
          [] call = "GetFileSHA" -> "failed to get file sha: "
          [] call = "UpdateFile" -> "failed to update file: "
          [] call = "CreatePullRequest" -> "failed to create PR: "]

executeAutoFix(node, previousResults) ==
    UNION {IF ~user.found THEN {Fail(<<"failed to fetch user: ", "record not found">>)}
           ELSE IF user.AccessToken = "" THEN {Fail(<<"user has no GitHub access token">>)}
           ELSE LET parsed == parseGitHubTarget(target)
                    owner == IF Str(node.data, "owner") # "" THEN node.data.owner ELSE parsed.owner
                    repo == IF Str(node.data, "repo") # "" THEN node.data.repo ELSE parsed.repo
                    paths == IF Str(node.data, "path") # "" THEN {node.data.path}
                             ELSE InferredPaths(previousResults)
                IN  UNION {IF owner = "" \/ repo = "" \/ path = ""
                           THEN {Fail(<<"auto-fix requires owner, repo, and path (target: ",
                                        target, ")">>)}
                           ELSE {IF failing = 0
                                 THEN [Ok([type |-> "auto-fix", status |-> "created",
                                           branch |-> <<"fix/vuln-", "epoch">>,
                                           output |-> [tool |-> "auto-fix", mock |-> FALSE,
                                                       target |-> ""]])
                                       EXCEPT !.calls = AutoFixCalls(node)]
                                 ELSE [Fail(<<AutoFixErrors[AutoFixCalls(node)[failing]],
                                              "collaborator error">>)
                                       EXCEPT !.calls = SubSeq(AutoFixCalls(node), 1, failing)]
                                 : failing \in 0..Len(AutoFixCalls(node))}
                           : path \in paths}
           : user \in Users, target \in getTarget(previousResults)}

\* a dispatch that takes a node of an unknown type as done
UnknownNodeTypeIgnored(node) == {Ok([type |-> node.type, status |-> "completed"])}

\* executeNode, default: the unknown-node-type error
UnknownNodeType(node) == {Fail(<<"unknown node type: ", node.type>>)}

(***************************************************************************)
(* executeNode: the dispatch on the node type.                             *)
(***************************************************************************)
executeNode(node, previousResults) ==
    CASE node.type = "trigger" -> executeTrigger(node)
      [] node.type = "nmap" -> executeNmap(node, previousResults)
      [] node.type = "nikto" -> executeNikto(node, previousResults)
      [] node.type = "gobuster" -> executeGobuster(node, previousResults)
      [] node.type = "sqlmap" -> executeSqlmap(node, previousResults)
      [] node.type = "wpscan" -> executeWpscan(node, previousResults)
      [] node.type \in {"email", "slack"} -> executeNotification(node, previousResults)
      [] node.type = "github-issue" -> executeGitHubIssue(node, previousResults)
      [] node.type = "auto-fix" -> executeAutoFix(node, previousResults)
      [] node.type = "owasp-vulnerabilities" -> executeNikto(node, previousResults)
      [] node.type = "flow-chart" -> executeFlowChart(node, previousResults)
      [] node.type = "secret-scan" -> executeSecretScan(node, previousResults)
      [] node.type = "dependency-check" -> executeDependencyCheck(node, previousResults)
      [] node.type = "semgrep-scan" -> executeSemgrep(node, previousResults)
      [] node.type = "container-scan" -> executeContainerScan(node, previousResults)
      [] node.type = "kube-bench" -> executeKubeBench(node, previousResults)
      [] node.type = "iac-scan" -> executeTrivyIaC(node, previousResults)
      [] node.type = "decision" -> executeDecision(node, previousResults)
      [] node.type = "estimate-cost" -> executeEstimateCost(node, previousResults)
      [] node.type = "policy-check" -> executePolicyCheck(node, previousResults)
      [] node.type = "generate-iac" -> executeGenerateIaC(node, previousResults)
      [] node.type = "drift-check" -> executeDriftCheck(node, previousResults)
      [] node.type = "generate-docs" -> executeGenerateDocs(node, previousResults)
      [] OTHER -> UnknownNodeType(node)

(***************************************************************************)
(* The workflows the model executes.                                       *)
(***************************************************************************)
\* node types and data of the graphs: a trigger without sourceUrl, a scanner
\* that needs a target, the decision of "vulnerabilities gt 5", an e-mail
\* with a configured recipient
NodeKinds ==
    { [type |-> "trigger", data |-> EmptyMap],
      [type |-> "nmap", data |-> EmptyMap],
      [type |-> "decision",
       data |-> [variable |-> "vulnerabilities", operator |-> "gt", value |-> "5"]],
      [type |-> "email", data |-> [config |-> [email |-> "a@b.c"]]] }

\* the workflow with these ids, kinds and edges
Workflow(ids, kinds, edges) ==
    [nodes |-> [i \in DOMAIN ids |-> WorkflowNode(ids[i], kinds[i].type, kinds[i].data)],
     edges |-> edges]

\* a chain of edges through the ids, in order
RECURSIVE Chain(_)
Chain(ids) ==
    IF Len(ids) < 2 THEN <<>>
    ELSE <<WorkflowEdge(ids[1], ids[2])>> \o Chain(Tail(ids))

\* T(trigger) -> N(nmap) -> E(email): the linear workflow
LinearWorkflow ==
    [nodes |-> <<WorkflowNode("T", "trigger", [sourceUrl |-> "https://example.com"]),
                 WorkflowNode("N", "nmap", EmptyMap),
                 WorkflowNode("E", "email", [config |-> [email |-> "a@b.c"]])>>,
     edges |-> Chain(<<"T", "N", "E">>)]

\* T(trigger) -> S(secret-scan) -> D(decision) -> F(auto-fix): the gated fix
DecisionWorkflow ==
    [nodes |-> <<WorkflowNode("T", "trigger", [sourceUrl |-> "https://github.com/acme/widgets"]),
                 WorkflowNode("S", "secret-scan", EmptyMap),
                 WorkflowNode("D", "decision",
                              [variable |-> "vulnerabilities", operator |-> "gt",
                               value |-> "5"]),
                 WorkflowNode("F", "auto-fix", EmptyMap)>>,
     edges |-> Chain(<<"T", "S", "D", "F">>)]

\* T(trigger) -> X(secret-scan) -> F(auto-fix with a path): the fix
AutoFixWorkflow ==
    [nodes |-> <<WorkflowNode("T", "trigger", [sourceUrl |-> "https://github.com/acme/widgets"]),
                 WorkflowNode("X", "secret-scan", EmptyMap),
                 WorkflowNode("F", "auto-fix", [path |-> "README.md"])>>,
     edges |-> Chain(<<"T", "X", "F">>)]

\* T(trigger) -> G(github-issue) -> M(slack without a recipient)
PublishWorkflow ==
    [nodes |-> <<WorkflowNode("T", "trigger", [sourceUrl |-> "https://github.com/acme/widgets"]),
                 WorkflowNode("G", "github-issue", EmptyMap),
                 WorkflowNode("M", "slack", EmptyMap)>>,
     edges |-> Chain(<<"T", "G", "M">>)]

\* D(decision that is false) -> A(nmap) -> B(email): the skip cascade
CascadeWorkflow ==
    [nodes |-> <<WorkflowNode("D", "decision",
                              [variable |-> "vulnerabilities", operator |-> "gt",
                               value |-> "5"]),
                 WorkflowNode("A", "nmap", EmptyMap),
                 WorkflowNode("B", "email", [config |-> [email |-> "a@b.c"]])>>,
     edges |-> Chain(<<"D", "A", "B">>)]

\* T(trigger) -> P(decision that is true) -> N(nmap): the open gate
PassingWorkflow ==
    [nodes |-> <<WorkflowNode("T", "trigger", [sourceUrl |-> "https://example.com"]),
                 WorkflowNode("P", "decision",
                              [variable |-> "vulnerabilities", operator |-> "lt",
                               value |-> "5"]),
                 WorkflowNode("N", "nmap", EmptyMap)>>,
     edges |-> Chain(<<"T", "P", "N">>)]

\* T(trigger) -> C(flow-chart) -> K(kube-bench) -> N(nmap): the target
\* handed down through results that store one
TargetWorkflow ==
    [nodes |-> <<WorkflowNode("T", "trigger", [sourceUrl |-> "https://example.com"]),
                 WorkflowNode("C", "flow-chart", EmptyMap),
                 WorkflowNode("K", "kube-bench", EmptyMap),
                 WorkflowNode("N", "nmap", EmptyMap)>>,
     edges |-> Chain(<<"T", "C", "K", "N">>)]

\* the node types of the scanner family
ScannerTypes ==
    {"nmap", "nikto", "gobuster", "sqlmap", "wpscan", "secret-scan", "dependency-check",
     "semgrep-scan", "container-scan", "kube-bench", "iac-scan", "owasp-vulnerabilities"}

\* a single scanner node and no edge, one workflow per scanner type
ScannerOnlyWorkflows ==
    {[nodes |-> <<WorkflowNode("N", type, EmptyMap)>>, edges |-> <<>>] : type \in ScannerTypes}

\* the node types whose handler runs a tool of ScannerService
ToolTypes ==
    {"nmap", "nikto", "gobuster", "sqlmap", "wpscan", "kube-bench", "iac-scan",
     "estimate-cost"}

\* T(trigger) -> X, one workflow per node type that runs a tool
ToolWorkflows ==
    {[nodes |-> <<WorkflowNode("T", "trigger", [sourceUrl |-> "https://example.com"]),
                  WorkflowNode("X", type, EmptyMap)>>,
      edges |-> Chain(<<"T", "X">>)] : type \in ToolTypes}

\* a single secret-scan node whose id is the key of the report
ReportKeyWorkflow ==
    [nodes |-> <<WorkflowNode("ai_report", "secret-scan", EmptyMap)>>, edges |-> <<>>]

\* T(trigger) -> U(a type outside the tag set)
UnknownTypeWorkflow ==
    [nodes |-> <<WorkflowNode("T", "trigger", [sourceUrl |-> "https://example.com"]),
                 WorkflowNode("U", "teleport", EmptyMap)>>,
     edges |-> Chain(<<"T", "U">>)]

\* T(trigger) -> Q(no type) and a node without id: json.Unmarshal leaves the
\* missing fields of a WorkflowNode empty
UntypedWorkflow ==
    [nodes |-> <<WorkflowNode("T", "trigger", [sourceUrl |-> "https://example.com"]),
                 WorkflowNode("Q", "", EmptyMap),
                 WorkflowNode("", "trigger", EmptyMap)>>,
     edges |-> Chain(<<"T", "Q">>)]

\* D(decision that is false) -> A(nmap) and E(trigger) -> X(flow-chart): a
\* node that is dispatched after a node of the other branch was skipped
SideBranchWorkflow ==
    [nodes |-> <<WorkflowNode("D", "decision",
                              [variable |-> "vulnerabilities", operator |-> "gt",
                               value |-> "5"]),
                 WorkflowNode("E", "trigger", [sourceUrl |-> "https://example.com"]),
                 WorkflowNode("A", "nmap", EmptyMap),
                 WorkflowNode("X", "flow-chart", EmptyMap)>>,
     edges |-> <<WorkflowEdge("D", "A"), WorkflowEdge("E", "X")>>]

\* a single trigger whose sourceUrl is present and empty
EmptySourceWorkflow ==
    [nodes |-> <<WorkflowNode("T", "trigger", [sourceUrl |-> ""])>>, edges |-> <<>>]

\* C(flow-chart) -> T(trigger) -> F(flow-chart) -> N(nmap): a flow chart
\* that runs before any target exists
EmptyTargetWorkflow ==
    [nodes |-> <<WorkflowNode("C", "flow-chart", EmptyMap),
                 WorkflowNode("T", "trigger", [sourceUrl |-> "https://example.com"]),
                 WorkflowNode("F", "flow-chart", EmptyMap),
                 WorkflowNode("N", "nmap", EmptyMap)>>,
     edges |-> Chain(<<"C", "T", "F", "N">>)]

\* T(trigger) -> F(auto-fix with a path and a configured vulnerability)
AutoFixKnownWorkflow ==
    [nodes |-> <<WorkflowNode("T", "trigger", [sourceUrl |-> "https://github.com/acme/widgets"]),
                 WorkflowNode("F", "auto-fix",
                              [path |-> "README.md", vulnerability |-> "hardcoded secret"])>>,
     edges |-> Chain(<<"T", "F">>)]

\* workflows longer than the generated ones, or of other node types
LongWorkflows ==
    {LinearWorkflow, DecisionWorkflow, AutoFixWorkflow, PublishWorkflow, CascadeWorkflow,
     PassingWorkflow, TargetWorkflow, UnknownTypeWorkflow, UntypedWorkflow,
     SideBranchWorkflow, EmptySourceWorkflow, EmptyTargetWorkflow, AutoFixKnownWorkflow,
     ReportKeyWorkflow}
    \cup ScannerOnlyWorkflows \cup ToolWorkflows

(***************************************************************************)
(* State.                                                                  *)
(***************************************************************************)
VARIABLES
    workflow,        \* the definition handed to Execute, NoWorkflow before
    execution,       \* the persisted WorkflowExecution row, NoRecord before
    returned,        \* the record Execute returned to its caller
    pc,              \* where the background task executeAsync stands
    executionOrder,  \* executeAsync: the order topologicalSort returned
    idx,             \* executeAsync: position of the loop in executionOrder
    results,         \* executeAsync: the local results map
    nodeStates,      \* executeAsync: the local nodeStates map
    visited,         \* history: the nodes the loop has set as current node
    dispatched,      \* history: the nodes whose handler executeNode has run
    resorted,        \* the order of a second topologicalSort of the same workflow
    calls,           \* history: the collaborator calls of the last handler or operation
    decided,         \* the outcome of executeDecision on a node and prior results
    redecided,       \* the outcome of a second executeDecision on the same input
    adapter,         \* AIService: the operation, the configured keys, the providers
    answer,          \* AIService: what the operation returned
    store            \* the workflows row and whether the execution row was deleted

\* the variables of the decision, AI adapter and workflow service runs
others == <<decided, redecided, adapter, answer, store>>

vars == <<workflow, execution, returned, pc, executionOrder, idx, results, nodeStates,
          visited, dispatched, resorted, calls, others>>

\* no outcome, no adapter run
Nothing == [none |-> TRUE]

NoWorkflow == [nodes |-> <<>>, edges |-> <<>>, none |-> TRUE]

NoRecord == [status |-> "none"]

Init ==
    /\ workflow = NoWorkflow
    /\ execution = NoRecord
    /\ returned = NoRecord
    /\ pc = "idle"
    /\ executionOrder = <<>>
    /\ idx = 1
    /\ results = EmptyMap
    /\ nodeStates = EmptyMap
    /\ visited = <<>>
    /\ dispatched = <<>>
    /\ resorted = <<>>
    /\ calls = <<>>
    /\ decided = Nothing
    /\ redecided = Nothing
    /\ adapter = Nothing
    /\ answer = Nothing
    /\ store = Nothing

(***************************************************************************)
(* Execute and the background task executeAsync.                           *)
(***************************************************************************)
\* Execute: create the pending record, start executeAsync, return the record;
\* when the record cannot be created, return the error and start nothing.
\* The workflow is any nodes array over IdSeqs and NodeKinds with any edges
\* array over its ids, or one of the longer workflows.
\* e.db.Create(execution): the record as created
PendingRecord ==
    [status |-> "pending", current_node |-> "", results |-> EmptyMap,
     error |-> <<>>, started_at |-> FALSE, completed_at |-> FALSE]

\* what Execute returns when e.db.Create fails: no record and an error
CreateFailed ==
    [status |-> "none", error |-> <<"failed to create execution record: ", "db error">>]

\* an Execute that starts executeAsync whether or not the record was created
ExecuteUnchecked ==
    /\ pc = "idle"
    /\ \/ \E ids \in IdSeqs :
             \E kinds \in [DOMAIN ids -> NodeKinds], edges \in EdgeSeqs(ids) :
                workflow' = Workflow(ids, kinds, edges)
       \/ workflow' \in LongWorkflows
    /\ \/ /\ execution' = PendingRecord
          /\ returned' = [status |-> "pending", results |-> EmptyMap]
       \/ /\ returned' = CreateFailed
          /\ UNCHANGED execution
    /\ pc' = "start"
    /\ UNCHANGED <<executionOrder, idx, results, nodeStates, visited, dispatched, resorted,
                   calls, others>>

Execute ==
    /\ pc = "idle"
    /\ \/ \E ids \in IdSeqs :
             \E kinds \in [DOMAIN ids -> NodeKinds], edges \in EdgeSeqs(ids) :
                workflow' = Workflow(ids, kinds, edges)
       \/ workflow' \in LongWorkflows
    /\ \/ /\ execution' = PendingRecord
          /\ returned' = [status |-> "pending", results |-> EmptyMap]
          /\ pc' = "start"
       \/ /\ returned' = CreateFailed
          /\ pc' = "rejected"
          /\ UNCHANGED execution
    /\ UNCHANGED <<executionOrder, idx, results, nodeStates, visited, dispatched, resorted,
                   calls, others>>

\* a failExecution that logs the error and writes nothing
failExecutionLogOnly(row, errorMsg) == row

\* a failExecution that writes the status and the error and no completed_at
failExecutionNoTimestamp(row, errorMsg) ==
    [row EXCEPT !.status = "failed", !.error = errorMsg]

\* failExecution: one update of status, error and completed_at
failExecution(row, errorMsg) ==
    [row EXCEPT !.status = "failed", !.error = errorMsg, !.completed_at = TRUE]

\* executeAsync, "Update status to running"
Start ==
    /\ pc = "start"
    /\ execution' = [execution EXCEPT !.status = "running", !.started_at = TRUE]
    /\ pc' = "sort"
    /\ UNCHANGED <<workflow, returned, executionOrder, idx, results, nodeStates,
                   visited, dispatched, resorted, calls, others>>

\* executeAsync, "Get execution order"
Sort ==
    /\ pc = "sort"
    /\ \E sorted \in topologicalSort(workflow.nodes, workflow.edges) :
          IF sorted.err # <<>>
          THEN /\ execution' = failExecution(execution,
                                             <<"Failed to sort workflow: ">> \o sorted.err)
               /\ pc' = "done"
               /\ UNCHANGED executionOrder
          ELSE /\ executionOrder' = sorted.order
               /\ pc' = "visit"
               /\ UNCHANGED execution
    /\ UNCHANGED <<workflow, returned, idx, results, nodeStates, visited, dispatched,
                   resorted, calls, others>>

\* findNode: the first node with the id, NoNode for nil
NoNode == [id |-> "", type |-> "", data |-> EmptyMap, none |-> TRUE]

findNode(nodes, nodeID) ==
    IF \E i \in DOMAIN nodes : nodes[i].id = nodeID
    THEN nodes[CHOOSE i \in DOMAIN nodes :
                   /\ nodes[i].id = nodeID
                   /\ \A j \in DOMAIN nodes : nodes[j].id = nodeID => i <= j]
    ELSE NoNode

\* inEdges[nodeID]: the sources of the edges into nodeID, in edge order
RECURSIVE inEdges(_, _)
inEdges(edges, nodeID) ==
    IF edges = <<>> THEN <<>>
    ELSE (IF Head(edges).target = nodeID THEN <<Head(edges).source>> ELSE <<>>)
         \o inEdges(Tail(edges), nodeID)

\* a dependency check that cascades skipped and failed states and does not
\* look at the result of a decision
SkipReasonCascadeOnly(parents, states, prior) ==
    LET bad == {i \in DOMAIN parents :
                  Has(states, parents[i]) /\ states[parents[i]] \in {"skipped", "failed"}}
        first == CHOOSE i \in bad : \A j \in bad : i <= j
    IN  IF bad = {} THEN <<>>
        ELSE <<"Parent ", parents[first], " was ", states[parents[first]]>>

\* "CHECK DEPENDENCIES": the reason of the first parent that makes the node
\* skip, <<>> when no parent does
RECURSIVE SkipReason(_, _, _)
SkipReason(parents, states, prior) ==
    IF parents = <<>> THEN <<>>
    ELSE LET parentID == Head(parents)
             parentState == IF Has(states, parentID) THEN states[parentID] ELSE ""
         IN  IF parentState \in {"skipped", "failed"}
             THEN <<"Parent ", parentID, " was ", parentState>>
             ELSE IF /\ Has(prior, parentID)
                     /\ Has(prior[parentID], "type")
                     /\ prior[parentID].type = "decision"
                     /\ Has(prior[parentID], "decision_result")
                     /\ ~prior[parentID].decision_result
             THEN <<"Decision node ", parentID, " returned false">>
             ELSE SkipReason(Tail(parents), states, prior)

\* executeAsync, the head of the loop body: find the node, write it as the
\* current node, check its dependencies and record a skip
Visit ==
    /\ pc = "visit"
    /\ idx <= Len(executionOrder)
    /\ LET nodeID == executionOrder[idx]
           node == findNode(workflow.nodes, nodeID)
           skipReason == SkipReason(inEdges(workflow.edges, nodeID), nodeStates, results)
       IN  IF node = NoNode
           THEN /\ execution' = failExecution(execution, <<"Node not found: ", nodeID>>)
                /\ pc' = "done"
                /\ UNCHANGED <<idx, results, nodeStates, visited>>
           ELSE /\ execution' = [execution EXCEPT !.current_node = node.id]
                /\ visited' = Append(visited, node.id)
                /\ IF skipReason # <<>>
                   THEN /\ nodeStates' = Put(nodeStates, node.id, "skipped")
                        /\ results' = Put(results, node.id,
                                          [id |-> node.id, status |-> "skipped",
                                           reason |-> skipReason])
                        /\ idx' = idx + 1
                        /\ pc' = "visit"
                   ELSE /\ pc' = "dispatch"
                        /\ UNCHANGED <<idx, results, nodeStates>>
    /\ UNCHANGED <<workflow, returned, executionOrder, dispatched, resorted, calls, others>>

\* executeAsync, "Execute the node" and "Store result".  afterError says what
\* follows failExecution: the code returns.
DispatchThen(afterError) ==
    /\ pc = "dispatch"
    /\ LET node == findNode(workflow.nodes, executionOrder[idx])
       IN  /\ dispatched' = Append(dispatched, node.id)
           /\ \E out \in executeNode(node, results) :
                 /\ calls' = out.calls
                 /\ IF out.err # <<>>
                    THEN /\ nodeStates' = Put(nodeStates, node.id, "failed")
                         /\ execution' = failExecution(execution,
                                            <<"Node ", node.id, " failed: ">> \o out.err)
                         /\ IF afterError = "return"
                            THEN pc' = "done" /\ UNCHANGED idx
                            ELSE pc' = "visit" /\ idx' = idx + 1
                         /\ UNCHANGED results
                    ELSE /\ nodeStates' = Put(nodeStates, node.id, "completed")
                         /\ results' = Put(results, node.id, out.result)
                         /\ execution' = [execution EXCEPT !.results = results']
                         /\ idx' = idx + 1
                         /\ pc' = "visit"
    /\ UNCHANGED <<workflow, returned, executionOrder, visited, resorted, others>>

\* a dispatch that stores the result and does not move on to the next node
DispatchAndStay ==
    /\ pc = "dispatch"
    /\ LET node == findNode(workflow.nodes, executionOrder[idx])
       IN  /\ dispatched' = Append(dispatched, node.id)
           /\ \E out \in executeNode(node, results) :
                 /\ calls' = out.calls
                 /\ IF out.err # <<>>
                    THEN /\ nodeStates' = Put(nodeStates, node.id, "failed")
                         /\ execution' = failExecution(execution,
                                            <<"Node ", node.id, " failed: ">> \o out.err)
                         /\ pc' = "done"
                         /\ UNCHANGED results
                    ELSE /\ nodeStates' = Put(nodeStates, node.id, "completed")
                         /\ results' = Put(results, node.id, out.result)
                         /\ execution' = [execution EXCEPT !.results = results']
                         /\ pc' = "dispatch"
    /\ UNCHANGED <<workflow, returned, executionOrder, idx, visited, resorted, others>>

\* a dispatch that persists the entry of the dispatched node alone, added to
\* the persisted results, and not the local results map
DispatchOwnEntry ==
    /\ pc = "dispatch"
    /\ LET node == findNode(workflow.nodes, executionOrder[idx])
       IN  /\ dispatched' = Append(dispatched, node.id)
           /\ \E out \in executeNode(node, results) :
                 /\ calls' = out.calls
                 /\ IF out.err # <<>>
                    THEN /\ nodeStates' = Put(nodeStates, node.id, "failed")
                         /\ execution' = failExecution(execution,
                                            <<"Node ", node.id, " failed: ">> \o out.err)
                         /\ pc' = "done"
                         /\ UNCHANGED <<idx, results>>
                    ELSE /\ nodeStates' = Put(nodeStates, node.id, "completed")
                         /\ results' = Put(results, node.id, out.result)
                         /\ execution' = [execution EXCEPT
                                            !.results = Put(execution.results, node.id,
                                                            out.result)]
                         /\ idx' = idx + 1
                         /\ pc' = "visit"
    /\ UNCHANGED <<workflow, returned, executionOrder, visited, resorted, others>>

\* a loop that goes on to the next node after failExecution
DispatchWithoutReturn == DispatchThen("continue")

Dispatch == DispatchThen("return")

\* the nodes whose output goes into the summaries of the final report
Summarised ==
    {nodeID \in DOMAIN results :
        /\ Has(nodeStates, nodeID)
        /\ nodeStates[nodeID] = "completed"
        /\ Has(results[nodeID], "output")}

\* a report step that fails the execution when the AI call fails
GenerateReportFatal ==
    /\ pc = "visit"
    /\ idx > Len(executionOrder)
    /\ IF Summarised = {}
       THEN pc' = "complete" /\ UNCHANGED <<results, execution>>
       ELSE \E ai \in AIOutcomes :
               IF ai # <<>>
               THEN /\ execution' = failExecution(execution,
                                                  <<"Failed to generate report: ">> \o ai)
                    /\ pc' = "done"
                    /\ UNCHANGED results
               ELSE /\ results' = Put(results, "ai_report",
                                      [ai_report |-> "report", security_grade |-> "B",
                                       total_issues |-> GoInt(5),
                                       critical_issues |-> GoInt(0),
                                       generated_by |-> "VulnPilot AI"])
                    /\ execution' = [execution EXCEPT !.results = results']
                    /\ pc' = "complete"
    /\ UNCHANGED <<workflow, returned, executionOrder, idx, nodeStates, visited, dispatched,
                   resorted, calls, others>>

\* executeAsync, "Generate AI Report"
GenerateReport ==
    /\ pc = "visit"
    /\ idx > Len(executionOrder)
    /\ IF Summarised = {}
       THEN UNCHANGED <<results, execution>>
       ELSE \E ai \in AIOutcomes :
               IF ai # <<>>
               THEN /\ results' = Put(results, "ai_report_error",
                                      [goType |-> "string", s |-> ai])
                    /\ UNCHANGED execution
               ELSE /\ results' = Put(results, "ai_report",
                                      [ai_report |-> "report", security_grade |-> "B",
                                       total_issues |-> GoInt(5),
                                       critical_issues |-> GoInt(0),
                                       generated_by |-> "VulnPilot AI"])
                    /\ execution' = [execution EXCEPT !.results = results']
    /\ pc' = "complete"
    /\ UNCHANGED <<workflow, returned, executionOrder, idx, nodeStates, visited, dispatched,
                   resorted, calls, others>>

\* a final write that saves the whole record and so creates it again when
\* it is gone
MarkCompletedSave ==
    /\ pc = "complete"
    /\ execution' = [execution EXCEPT !.status = "completed", !.completed_at = TRUE,
                                      !.results = results]
    /\ store' = IF store = Nothing THEN store ELSE [store EXCEPT !.deleted = FALSE]
    /\ pc' = "done"
    /\ UNCHANGED <<workflow, returned, executionOrder, idx, results, nodeStates,
                   visited, dispatched, resorted, calls, decided, redecided, adapter, answer>>

\* a final update that writes the status and not the results
MarkCompletedStatusOnly ==
    /\ pc = "complete"
    /\ execution' = [execution EXCEPT !.status = "completed", !.completed_at = TRUE]
    /\ pc' = "done"
    /\ UNCHANGED <<workflow, returned, executionOrder, idx, results, nodeStates,
                   visited, dispatched, resorted, calls, others>>

\* executeAsync, "Mark as completed"
MarkCompleted ==
    /\ pc = "complete"
    /\ execution' = [execution EXCEPT !.status = "completed", !.completed_at = TRUE,
                                      !.results = results]
    /\ pc' = "done"
    /\ UNCHANGED <<workflow, returned, executionOrder, idx, results, nodeStates,
                   visited, dispatched, resorted, calls, others>>

Next ==
    \/ Execute
    \/ Start
    \/ Sort
    \/ Visit
    \/ Dispatch
    \/ GenerateReport
    \/ MarkCompleted

Spec == Init /\ [][Next]_vars

(***************************************************************************)
(* topologicalSort alone, run twice on one workflow definition.            *)
(***************************************************************************)
InitSort ==
    /\ \E ids \in IdSeqs :
          \E kinds \in [DOMAIN ids -> {[type |-> "trigger", data |-> EmptyMap]}],
             edges \in EdgeSeqs(ids) :
             workflow = Workflow(ids, kinds, edges)
    /\ execution = NoRecord
    /\ returned = NoRecord
    /\ pc = "sort"
    /\ executionOrder = <<>>
    /\ idx = 1
    /\ results = EmptyMap
    /\ nodeStates = EmptyMap
    /\ visited = <<>>
    /\ dispatched = <<>>
    /\ resorted = <<>>
    /\ calls = <<>>
    /\ decided = Nothing
    /\ redecided = Nothing
    /\ adapter = Nothing
    /\ answer = Nothing
    /\ store = Nothing

\* the first run of topologicalSort
SortOnce ==
    /\ pc = "sort"
    /\ \E sorted \in topologicalSort(workflow.nodes, workflow.edges) :
          /\ executionOrder' = sorted.order
          /\ pc' = IF sorted.err # <<>> THEN "unsortable" ELSE "sorted"
    /\ UNCHANGED <<workflow, execution, returned, idx, results, nodeStates, visited,
                   dispatched, resorted, calls, others>>

\* a second run on the same nodes and edges
SortAgain ==
    /\ pc = "sorted"
    /\ \E sorted \in topologicalSort(workflow.nodes, workflow.edges) :
          /\ sorted.err = <<>>
          /\ resorted' = sorted.order
    /\ pc' = "resorted"
    /\ UNCHANGED <<workflow, execution, returned, executionOrder, idx, results,
                   nodeStates, visited, dispatched, calls, others>>

NextSort ==
    \/ SortOnce
    \/ SortAgain

SpecSort == InitSort /\ [][NextSort]_vars

(***************************************************************************)
(* executeDecision alone, run twice on one node and one prior-results map. *)
(***************************************************************************)
DecisionVariables == {"vulnerabilities", "cost", "risk_score", "manual_input"}

\* "" stands for a missing or unknown operator
DecisionOperators == {"gt", "lt", "eq", "neq", ""}

\* the results executeAsync stores in its results map: what the handlers
\* return and the skipped result
StoredResults ==
    {o.result :
       o \in {x \in executeTrigger(WorkflowNode("T", "trigger", EmptyMap))
                    \cup executeSecretScan(NoNode, EmptyMap)
                    \cup executeDependencyCheck(NoNode, EmptyMap)
                    \cup executeSemgrep(NoNode, EmptyMap)
                    \cup executeEstimateCost(NoNode,
                            [k \in {"T"} |-> [target |-> "example.com", type |-> "trigger"]])
                    \cup executeDecision(WorkflowNode("D", "decision", EmptyMap), EmptyMap)
              : x.err = <<>>}}
    \cup {[id |-> "n1", status |-> "skipped", reason |-> <<"Parent ", "n2", " was skipped">>]}

\* a decision node with any rule and any prior results over NodeIds
InitDecision ==
    /\ \E variable \in DecisionVariables, operator \in DecisionOperators,
          value \in DOMAIN Float64Literals :
          workflow = [nodes |-> <<WorkflowNode("D", "decision",
                                               [variable |-> variable,
                                                operator |-> operator,
                                                value |-> value])>>,
                      edges |-> <<>>]
    /\ \E ids \in SUBSET NodeIds : results \in [ids -> StoredResults]
    /\ execution = NoRecord
    /\ returned = NoRecord
    /\ pc = "decide"
    /\ executionOrder = <<>>
    /\ idx = 1
    /\ nodeStates = EmptyMap
    /\ visited = <<>>
    /\ dispatched = <<>>
    /\ resorted = <<>>
    /\ calls = <<>>
    /\ decided = Nothing
    /\ redecided = Nothing
    /\ adapter = Nothing
    /\ answer = Nothing
    /\ store = Nothing

\* the first evaluation
DecideOnce ==
    /\ pc = "decide"
    /\ \E out \in executeDecision(workflow.nodes[1], results) :
          decided' = out.result
    /\ pc' = "decided"
    /\ UNCHANGED <<workflow, execution, returned, executionOrder, idx, results,
                   nodeStates, visited, dispatched, resorted, calls, redecided,
                   adapter, answer, store>>

\* a second evaluation of the same node on the same prior results
DecideAgain ==
    /\ pc = "decided"
    /\ \E out \in executeDecision(workflow.nodes[1], results) :
          redecided' = out.result
    /\ pc' = "redecided"
    /\ UNCHANGED <<workflow, execution, returned, executionOrder, idx, results,
                   nodeStates, visited, dispatched, resorted, calls, decided,
                   adapter, answer, store>>

NextDecision ==
    \/ DecideOnce
    \/ DecideAgain

SpecDecision == InitDecision /\ [][NextDecision]_vars

(***************************************************************************)
(* AIService: one operation of the adapter on one configuration, with the  *)
(* answer each provider gives when it is called.                           *)
(***************************************************************************)
\* a provider's text: a body, with or without a markdown fence around it;
\* [fence] stands for the three backquotes of the fence
Text(prefix, body, suffix) == [prefix |-> prefix, body |-> body, suffix |-> suffix]

\* the "" returned with an error
NoText == Text("", "", "")

\* what callGemini or callGroq returns: a text, or the error of the
\* transport, of a status other than 200, or of an answer without content
ProviderOutcomes(provider) ==
    {[err |-> <<>>, text |-> Text(p, "{}", s)] :
        p \in {"", "[fence]json"}, s \in {"", "[fence]"}}
    \cup {[err |-> e, text |-> NoText] :
            e \in {<<"transport error">>,
                   <<provider, " API error: ", "500">>,
                   <<"no response from ", provider>>}}

callGemini(cfg) == cfg.gemini

callGroq(cfg) == cfg.groq

\* cleanJSON: drop a leading [fence]json and, then, a trailing [fence]
cleanJSON(s) == IF s.prefix = "[fence]json" THEN Text("", s.body, "") ELSE s

NoKeys == [err |-> <<"no AI API keys configured">>, text |-> NoText]

\* what an operation returns and the provider calls it made
Returned(outcome, made) == [err |-> outcome.err, text |-> outcome.text, calls |-> made]

\* "Try Gemini first, fallback to Groq": the body shared by AnalyzeCode,
\* GenerateSecurityRecommendations and GenerateFix
GeminiThenGroq(cfg) ==
    LET tried == IF cfg.GeminiAPIKey # "" THEN <<"callGemini">> ELSE <<>>
    IN  IF cfg.GeminiAPIKey # "" /\ callGemini(cfg).err = <<>>
        THEN Returned(callGemini(cfg), tried)
        ELSE IF cfg.GroqAPIKey # ""
             THEN Returned(callGroq(cfg), Append(tried, "callGroq"))
             ELSE Returned(NoKeys, tried)

AnalyzeCode(cfg) == GeminiThenGroq(cfg)

GenerateSecurityRecommendations(cfg) == GeminiThenGroq(cfg)

GenerateFix(cfg) == GeminiThenGroq(cfg)

\* Groq when it is configured, Gemini only when Groq is not: the body shared
\* by ChatResponse and GenerateDocumentation
GroqElseGemini(cfg) ==
    IF cfg.GroqAPIKey # "" THEN Returned(callGroq(cfg), <<"callGroq">>)
    ELSE IF cfg.GeminiAPIKey # "" THEN Returned(callGemini(cfg), <<"callGemini">>)
    ELSE Returned(NoKeys, <<>>)

ChatResponse(cfg) == GroqElseGemini(cfg)

GenerateDocumentation(cfg) == GroqElseGemini(cfg)

\* Gemini, then Groq, each returned only on success, the text cleaned
GenerateWorkflowJSON(cfg) ==
    LET first == IF cfg.GeminiAPIKey # "" THEN <<"callGemini">> ELSE <<>>
        both == IF cfg.GroqAPIKey # "" THEN Append(first, "callGroq") ELSE first
    IN  IF cfg.GeminiAPIKey # "" /\ callGemini(cfg).err = <<>>
        THEN [err |-> <<>>, text |-> cleanJSON(callGemini(cfg).text), calls |-> first]
        ELSE IF cfg.GroqAPIKey # "" /\ callGroq(cfg).err = <<>>
             THEN [err |-> <<>>, text |-> cleanJSON(callGroq(cfg).text), calls |-> both]
             ELSE Returned(NoKeys, both)

\* NewAIService(cfg): any configuration of the two keys, any answers
InitAI ==
    /\ \E gemini \in {"", "gemini-key"}, groq \in {"", "groq-key"} :
          \E g \in ProviderOutcomes("Gemini"), q \in ProviderOutcomes("Groq") :
             adapter = [GeminiAPIKey |-> gemini, GroqAPIKey |-> groq,
                        gemini |-> g, groq |-> q]
    /\ answer = Nothing
    /\ store = Nothing
    /\ calls = <<>>
    /\ pc = "ask"
    /\ workflow = NoWorkflow
    /\ execution = NoRecord
    /\ returned = NoRecord
    /\ executionOrder = <<>>
    /\ idx = 1
    /\ results = EmptyMap
    /\ nodeStates = EmptyMap
    /\ visited = <<>>
    /\ dispatched = <<>>
    /\ resorted = <<>>
    /\ decided = Nothing
    /\ redecided = Nothing

\* one call of an operation: its answer and the provider calls it made
Ask(operation, out) ==
    /\ pc = "ask"
    /\ answer' = [operation |-> operation, err |-> out.err, text |-> out.text]
    /\ calls' = out.calls
    /\ pc' = "answered"
    /\ UNCHANGED <<workflow, execution, returned, executionOrder, idx, results,
                   nodeStates, visited, dispatched, resorted, decided, redecided,
                   adapter, store>>

AskAnalyzeCode == Ask("AnalyzeCode", AnalyzeCode(adapter))

AskGenerateSecurityRecommendations ==
    Ask("GenerateSecurityRecommendations", GenerateSecurityRecommendations(adapter))

AskGenerateFix == Ask("GenerateFix", GenerateFix(adapter))

AskChatResponse == Ask("ChatResponse", ChatResponse(adapter))

AskGenerateWorkflowJSON == Ask("GenerateWorkflowJSON", GenerateWorkflowJSON(adapter))

AskGenerateDocumentation == Ask("GenerateDocumentation", GenerateDocumentation(adapter))

NextAI ==
    \/ AskAnalyzeCode
    \/ AskGenerateSecurityRecommendations
    \/ AskGenerateFix
    \/ AskChatResponse
    \/ AskGenerateWorkflowJSON
    \/ AskGenerateDocumentation

SpecAI == InitAI /\ [][NextAI]_vars

(***************************************************************************)
(* WorkflowHandler and WorkflowService: one stored workflow, executed at   *)
(* most once, with the workflow and the execution record being updated or  *)
(* deleted while the background task runs.  Every write of executeAsync is *)
(* an UPDATE ... WHERE id = ?, which changes no row once the record is     *)
(* deleted: store.deleted says that the row is gone, and execution then    *)
(* holds what the task has tried to write.                                 *)
(***************************************************************************)
\* the authenticated users (middleware.GetUserID)
Principals == {"alice", "bob"}

\* the definitions of the stored workflow
ServiceWorkflows ==
    {LinearWorkflow, DecisionWorkflow, CascadeWorkflow, SideBranchWorkflow, PublishWorkflow}

\* the nodes and edges an update request can carry
Updates == {[nodes |-> <<>>, edges |-> <<>>], LinearWorkflow}

\* a GetWorkflow that does not filter on the owner
GetWorkflowAnyOwner(userID) ==
    IF store.exists
    THEN [err |-> <<>>,
          workflow |-> [nodes |-> store.nodes, edges |-> store.edges,
                        UserID |-> store.user_id]]
    ELSE [err |-> <<"record not found">>, workflow |-> NoWorkflow]

\* WorkflowService.GetWorkflow: First with id = ? AND user_id = ?, into a
\* struct of its own
GetWorkflow(userID) ==
    IF store.exists /\ store.user_id = userID
    THEN [err |-> <<>>,
          workflow |-> [nodes |-> store.nodes, edges |-> store.edges,
                        UserID |-> store.user_id]]
    ELSE [err |-> <<"record not found">>, workflow |-> NoWorkflow]

\* WorkflowService.GetExecution: First with id = ? AND user_id = ?
GetExecution(userID) ==
    IF execution = NoRecord \/ store.deleted \/ execution.UserID # userID
    THEN NoRecord
    ELSE execution

\* executeAsync, executeNode(node, results, workflow.UserID): the user whose
\* access token and e-mail the handlers look up
HandlerUser == workflow.UserID

InitService ==
    /\ \E definition \in ServiceWorkflows, owner \in Principals :
          store = [nodes |-> definition.nodes, edges |-> definition.edges,
                   user_id |-> owner, exists |-> TRUE, deleted |-> FALSE]
    /\ workflow = NoWorkflow
    /\ execution = NoRecord
    /\ returned = NoRecord
    /\ pc = "idle"
    /\ executionOrder = <<>>
    /\ idx = 1
    /\ results = EmptyMap
    /\ nodeStates = EmptyMap
    /\ visited = <<>>
    /\ dispatched = <<>>
    /\ resorted = <<>>
    /\ calls = <<>>
    /\ decided = Nothing
    /\ redecided = Nothing
    /\ adapter = Nothing
    /\ answer = Nothing

\* WorkflowHandler.ExecuteWorkflow: GetWorkflow for the authenticated user,
\* then WorkflowService.ExecuteWorkflow, which is Execute(workflow, userID)
ExecuteWorkflow ==
    /\ pc = "idle"
    /\ \E userID \in Principals :
          LET got == GetWorkflow(userID)
          IN  IF got.err # <<>>
              THEN /\ pc' = "notfound"
                   /\ UNCHANGED <<workflow, execution, returned>>
              ELSE /\ workflow' = got.workflow
                   /\ \/ /\ execution' = ("UserID" :> userID) @@ PendingRecord
                         /\ returned' = [status |-> "pending", results |-> EmptyMap]
                         /\ pc' = "start"
                      \/ /\ returned' = CreateFailed
                         /\ pc' = "rejected"
                         /\ UNCHANGED execution
    /\ UNCHANGED <<executionOrder, idx, results, nodeStates, visited, dispatched, resorted,
                   calls, others>>

\* an update that also reaches the struct the running task works on
UpdateWorkflowShared ==
    /\ \E userID \in Principals, updates \in Updates :
          /\ store.exists
          /\ store.user_id = userID
          /\ <<store.nodes, store.edges>> # <<updates.nodes, updates.edges>>
          /\ store' = [store EXCEPT !.nodes = updates.nodes, !.edges = updates.edges]
          /\ workflow' = IF workflow = NoWorkflow THEN workflow
                         ELSE [workflow EXCEPT !.nodes = updates.nodes,
                                               !.edges = updates.edges]
    /\ UNCHANGED <<execution, returned, pc, executionOrder, idx, results, nodeStates,
                   visited, dispatched, resorted, calls, decided, redecided, adapter,
                   answer>>

\* WorkflowService.UpdateWorkflow with new nodes and edges: First into a
\* struct of its own, then Updates on the row
UpdateWorkflow ==
    /\ \E userID \in Principals, updates \in Updates :
          /\ store.exists
          /\ store.user_id = userID
          /\ <<store.nodes, store.edges>> # <<updates.nodes, updates.edges>>
          /\ store' = [store EXCEPT !.nodes = updates.nodes, !.edges = updates.edges]
    /\ UNCHANGED <<workflow, execution, returned, pc, executionOrder, idx, results,
                   nodeStates, visited, dispatched, resorted, calls, decided, redecided,
                   adapter, answer>>

\* WorkflowService.DeleteWorkflow
DeleteWorkflow ==
    /\ \E userID \in Principals :
          /\ store.exists
          /\ store.user_id = userID
          /\ store' = [store EXCEPT !.exists = FALSE]
    /\ UNCHANGED <<workflow, execution, returned, pc, executionOrder, idx, results,
                   nodeStates, visited, dispatched, resorted, calls, decided, redecided,
                   adapter, answer>>

\* WorkflowService.DeleteWorkflowExecution: Delete with id = ? AND user_id = ?
DeleteWorkflowExecution ==
    /\ execution # NoRecord
    /\ ~store.deleted
    /\ \E userID \in Principals :
          /\ execution.UserID = userID
          /\ store' = [store EXCEPT !.deleted = TRUE]
    /\ UNCHANGED <<workflow, execution, returned, pc, executionOrder, idx, results,
                   nodeStates, visited, dispatched, resorted, calls, decided, redecided,
                   adapter, answer>>

\* the steps of the background task
Task ==
    \/ Start
    \/ Sort
    \/ Visit
    \/ Dispatch
    \/ GenerateReport
    \/ MarkCompleted

NextService ==
    \/ ExecuteWorkflow
    \/ Task
    \/ UpdateWorkflow
    \/ DeleteWorkflow
    \/ DeleteWorkflowExecution

SpecService == InitService /\ [][NextService]_vars

\* the Go scheduler runs the goroutine of executeAsync as long as it has a
\* step to take, and every handler call and database write returns
SpecLive == SpecService /\ WF_vars(Task)

(***************************************************************************)
(* Properties.                                                             *)
(***************************************************************************)
\* topologicalSort has returned an order and the loop over it runs or is over
SortSucceeded == pc \in {"visit", "dispatch", "complete"}

\* a handler has returned an error: the only way a node state becomes failed
HandlerFailed == \E n \in DOMAIN nodeStates : nodeStates[n] = "failed"

Terminal == {"completed", "failed"}

\* the ids of the nodes array, in declared order
DeclaredSeq == [i \in DOMAIN workflow.nodes |-> workflow.nodes[i].id]

Occurrences(seq, x) == Cardinality({i \in DOMAIN seq : seq[i] = x})

Before(seq, u, v) == \E i, j \in DOMAIN seq : i < j /\ seq[i] = u /\ seq[j] = v

RECURSIVE Closure(_, _)
\* the ids reachable from the ids of S along the edges
Closure(edges, S) ==
    LET T == S \cup {edges[i].target : i \in {j \in DOMAIN edges : edges[j].source \in S}}
    IN  IF T = S THEN S ELSE Closure(edges, T)

\* the edges contain a cycle, a self-loop included
HasCycle(edges) ==
    \E i \in DOMAIN edges : edges[i].source \in Closure(edges, {edges[i].target})

\* the entries of a results map whose status is failed
FailedEntries(res) ==
    {k \in DOMAIN res : Has(res[k], "status") /\ res[k].status = "failed"}

\* C1: the persisted status only moves pending -> running -> completed or
\* failed.  The record Execute returns is pending, the status is pending
\* until the background task starts and running from then on while the task
\* works, and once the status is completed or failed the task has ended
\* and the status never changes again.
C1_StatusLifecycle ==
    /\ [][execution'.status # execution.status =>
            <<execution.status, execution'.status>> \in
               {<<"none", "pending">>, <<"pending", "running">>,
                <<"running", "completed">>, <<"running", "failed">>}]_vars
    /\ [](returned.status # "none" => returned.status = "pending")
    /\ [](pc = "start" => execution.status = "pending")
    /\ [](pc \in {"sort", "visit", "dispatch", "complete"} => execution.status = "running")
    /\ [](pc = "done" <=> execution.status \in Terminal)

\* C1 witness: an execution that went through pending and running, ran a
\* handler and ended
C1_Witness ==
    /\ execution.status = "completed"
    /\ execution.started_at
    /\ returned.status = "pending"
    /\ dispatched # <<>>

\* the edges whose source and target are both declared nodes
DeclaredEdges ==
    SelectSeq(workflow.edges,
              LAMBDA e : {e.source, e.target} \subseteq DeclaredIds(workflow.nodes))

\* C2: when topologicalSort succeeds its order holds every declared node id
\* exactly once and, for every edge (between declared nodes), the source
\* before the target; and the loop visits no node before the sources of the
\* edges into it.
C2_TopologicalOrder ==
    SortSucceeded =>
       /\ \A id \in DeclaredIds(workflow.nodes) : Occurrences(executionOrder, id) = 1
       /\ \A i \in DOMAIN DeclaredEdges :
             Before(executionOrder, DeclaredEdges[i].source, DeclaredEdges[i].target)
       /\ \A k \in DOMAIN visited :
             \A i \in DOMAIN workflow.edges :
                workflow.edges[i].target = visited[k] =>
                   \E j \in 1..(k - 1) : visited[j] = workflow.edges[i].source

\* C3: a workflow whose edges contain a cycle (here: a cycle through
\* declared nodes) ends failed with the error of the cycle, and no node of
\* it is visited: no handler runs, the current node stays empty and the
\* results stay empty.
C3_CycleFailsUnvisited ==
    (execution # NoRecord /\ HasCycle(DeclaredEdges)) =>
       /\ visited = <<>>
       /\ dispatched = <<>>
       /\ execution.current_node = ""
       /\ execution.results = EmptyMap
       /\ results = EmptyMap
       /\ pc = "done" =>
             /\ execution.status = "failed"
             /\ execution.error = <<"Failed to sort workflow: ">> \o SortError

\* C4: a workflow without edges (and with distinct node ids) is visited in
\* the declared order of its nodes array, and all its nodes execute.
C4_NoEdgesDeclaredOrder ==
    (/\ pc \in {"visit", "dispatch", "complete", "done"}
     /\ workflow.edges = <<>>
     /\ \A id \in DeclaredIds(workflow.nodes) : Occurrences(DeclaredSeq, id) = 1) =>
       /\ executionOrder = DeclaredSeq
       /\ \A k \in DOMAIN visited : visited[k] = DeclaredSeq[k]
       /\ pc = "done" => dispatched = DeclaredSeq

\* the queue when the nodes with no dependencies are taken in declared order
RECURSIVE DeclaredQueue(_, _, _)
DeclaredQueue(nodes, zero, seen) ==
    IF nodes = <<>> THEN <<>>
    ELSE (IF Head(nodes).id \in zero \ seen THEN <<Head(nodes).id>> ELSE <<>>)
         \o DeclaredQueue(Tail(nodes), zero, seen \cup {Head(nodes).id})

\* C5: two runs of topologicalSort on the same nodes and edges return the
\* same order, the one that takes the nodes without dependencies in their
\* declared order.
C5_SortDeterministic ==
    pc = "resorted" =>
       /\ resorted = executionOrder
       /\ (ZeroInDegree(workflow.nodes, workflow.edges) \subseteq DeclaredIds(workflow.nodes)
             => executionOrder =
                  topologicalSortFrom(workflow.nodes, workflow.edges,
                     DeclaredQueue(workflow.nodes,
                                   ZeroInDegree(workflow.nodes, workflow.edges), {})).order)

\* the nodes the loop is done with: skipped, dispatched with a result or
\* dispatched with an error
Processed == {visited[k] : k \in 1..(IF pc = "dispatch" THEN Len(visited) - 1 ELSE Len(visited))}

\* C6: every node the controller has visited (skipped, dispatched with a
\* result or dispatched with an error) has an entry in results whose status
\* is one of completed, skipped, failed, sent, created.
C6_VisitedHaveStatus ==
    \A id \in Processed :
       /\ Has(results, id)
       /\ Has(results[id], "status")
       /\ results[id].status \in {"completed", "skipped", "failed", "sent", "created"}

\* C7 as stated: when the status is completed no entry of results has
\* status failed.
C7_CompletedNoFailedEntry ==
    execution.status = "completed" => FailedEntries(execution.results) = {}

\* C7 amended: when the status is completed, the entries of results with
\* status failed are entries of email or slack nodes.
C7_CompletedFailedOnlyNotifications ==
    execution.status = "completed" =>
       \A k \in FailedEntries(execution.results) :
          findNode(workflow.nodes, k).type \in {"email", "slack"}

\* C7 witness: a completed execution with the failed entry of a notification
C7_Witness ==
    /\ execution.status = "completed"
    /\ FailedEntries(execution.results) # {}

\* C8: when the status is completed every declared node has been visited
\* and has an entry in the persisted results.
C8_CompletedAllVisited ==
    execution.status = "completed" =>
       \A id \in DeclaredIds(workflow.nodes) :
          /\ \E k \in DOMAIN visited : visited[k] = id
          /\ Has(execution.results, id)

\* C8 witness: a completed execution with a skipped node and a run node
C8_Witness ==
    /\ execution.status = "completed"
    /\ \E n \in DOMAIN nodeStates : nodeStates[n] = "skipped"
    /\ \E n \in DOMAIN nodeStates : nodeStates[n] = "completed"

\* C9: when the execution has failed on the error of a node handler,
\* exactly one node has a result with status failed: the node whose handler
\* returned the error.
C9_ExactlyOneFailedEntry ==
    (execution.status = "failed" /\ HandlerFailed) =>
       /\ FailedEntries(execution.results) = {n \in DOMAIN nodeStates : nodeStates[n] = "failed"}
       /\ Cardinality(FailedEntries(execution.results)) = 1

\* C10: after a node handler returned an error the loop is over: no later
\* node is visited, dispatched or given a result, no report is generated,
\* and the step that records the error leaves the results as they were,
\* the local and the persisted ones.
C10_NothingAfterHandlerError ==
    /\ [][HandlerFailed' =>
            /\ results' = results
            /\ execution'.results = execution.results
            /\ visited' = visited]_vars
    /\ [][HandlerFailed => dispatched' = dispatched]_vars
    /\ [](HandlerFailed =>
            /\ pc = "done"
            /\ nodeStates[executionOrder[idx]] = "failed"
            /\ visited[Len(visited)] = executionOrder[idx]
            /\ dispatched[Len(dispatched)] = executionOrder[idx]
            /\ \A j \in (idx + 1)..Len(executionOrder) : ~Has(results, executionOrder[j])
            /\ \A k \in DOMAIN results : k \in {executionOrder[j] : j \in 1..(idx - 1)}
            /\ \A k \in DOMAIN execution.results : Has(results, k))

\* C10 witness: a handler error after a persisted result and before a node
\* that is still to come
C10_Witness ==
    /\ HandlerFailed
    /\ idx < Len(executionOrder)
    /\ execution.results # EmptyMap


\* the ids of a sequence of node ids
Range(seq) == {seq[i] : i \in DOMAIN seq}

\* some direct predecessor of the node has state skipped or failed, or is a
\* decision node whose recorded decision_result is false
Blocked(nodeID) ==
    \E i \in DOMAIN workflow.edges :
       /\ workflow.edges[i].target = nodeID
       /\ LET p == workflow.edges[i].source
          IN  \/ Has(nodeStates, p) /\ nodeStates[p] \in {"skipped", "failed"}
              \/ /\ findNode(workflow.nodes, p).type = "decision"
                 /\ Has(results, p)
                 /\ Has(results[p], "decision_result")
                 /\ ~results[p].decision_result

\* C11: when the controller visits a node it records the node as skipped,
\* without dispatching its handler, exactly when a direct predecessor has
\* state skipped or failed or is a decision node whose recorded
\* decision_result is false; otherwise it goes on to dispatch the handler.
\* No skipped node is ever dispatched.
C11_SkipIffBlocked ==
    /\ [][visited' # visited =>
            LET n == visited'[Len(visited')]
            IN  IF Blocked(n)
                THEN /\ pc' = "visit"
                     /\ Has(nodeStates', n) /\ nodeStates'[n] = "skipped"
                     /\ Has(results', n) /\ results'[n].status = "skipped"
                     /\ dispatched' = dispatched
                ELSE /\ pc' = "dispatch"
                     /\ ~Has(results', n)]_vars
    /\ [](\A n \in DOMAIN nodeStates : nodeStates[n] = "skipped" => n \notin Range(dispatched))
    /\ [](pc = "dispatch" => ~Blocked(visited[Len(visited)]))

\* the cascade workflow has ended: A was skipped for the decision D, B for
\* its skipped parent A, and D itself was dispatched
C11_Witness ==
    /\ workflow = CascadeWorkflow
    /\ pc = "done"
    /\ results["A"].reason = <<"Decision node ", "D", " returned false">>
    /\ results["B"].reason = <<"Parent ", "A", " was ", "skipped">>
    /\ dispatched = <<"D">>

\* the declared nodes reachable from x along the declared edges
Descendants(x) ==
    Closure(DeclaredEdges,
            {DeclaredEdges[i].target : i \in {j \in DOMAIN DeclaredEdges :
                                               DeclaredEdges[j].source = x}})

\* C12: in every state, when the result of node X has status skipped or
\* failed, every node reachable from X along the declared edges is either
\* not visited yet or has a result with status skipped, and none of them has
\* had its handler dispatched.
C12_SkipCascade ==
    \A x \in DOMAIN results :
       (Has(results[x], "status") /\ results[x].status \in {"skipped", "failed"}) =>
          \A y \in Descendants(x) :
             /\ y \in Range(visited) =>
                   Has(results, y) /\ Has(results[y], "status")
                                   /\ results[y].status = "skipped"
             /\ y \notin Range(dispatched)

\* C13: in the chain T(trigger) -> S(secret-scan) -> D(decision:
\* vulnerabilities gt "5") -> F(auto-fix), D records decision_result false,
\* F is recorded as skipped with a reason naming D, the handler of F is
\* never dispatched, and the execution ends completed.
C13_GatedFixSkipped ==
    workflow = DecisionWorkflow =>
       /\ "F" \notin Range(dispatched)
       /\ SortSucceeded \/ pc = "done" => executionOrder = <<"T", "S", "D", "F">>
       /\ Has(results, "D") => results["D"].type = "decision" /\ ~results["D"].decision_result
       /\ Has(results, "F") =>
             /\ results["F"].status = "skipped"
             /\ results["F"].reason = <<"Decision node ", "D", " returned false">>
       /\ pc = "done" =>
             /\ execution.status = "completed"
             /\ execution.error = <<>>
             /\ ~execution.results["D"].decision_result
             /\ execution.results["F"].status = "skipped"
             /\ dispatched = <<"T", "S", "D">>

\* the gated chain has ended completed with F skipped
C13_Witness ==
    /\ workflow = DecisionWorkflow
    /\ pc = "done"
    /\ execution.status = "completed"
    /\ execution.results["F"].status = "skipped"

\* the type of the declared node with the id
TypeOf(nodeID) == findNode(workflow.nodes, nodeID).type

\* C14: the dispatch of an email or slack node never fails the execution:
\* the node gets a result with status sent or, when the user, the recipient
\* or the delivery fails, status failed with an error text; the results of
\* earlier nodes stay as they were, the execution stays running and the
\* loop goes on to the next node.
C14_NotificationSoftFailure ==
    [][(dispatched' # dispatched /\ TypeOf(dispatched'[Len(dispatched')]) \in {"email", "slack"}) =>
          LET n == dispatched'[Len(dispatched')]
          IN  /\ Has(results', n)
              /\ results'[n].status \in {"sent", "failed"}
              /\ results'[n].status = "failed" =>
                    results'[n].error \in {<<"user not found">>,
                                           <<"no recipient email provided">>,
                                           <<"send failed">>}
              /\ nodeStates'[n] = "completed"
              /\ \A k \in DOMAIN results : Has(results', k) /\ results'[k] = results[k]
              /\ execution'.results = results'
              /\ execution'.status = "running"
              /\ execution'.error = <<>>
              /\ pc' = "visit"
              /\ idx' = idx + 1]_vars

\* an execution has ended completed although the delivery of its email
\* node failed, and the node after the email node was dispatched
C14_Witness ==
    /\ pc = "done"
    /\ execution.status = "completed"
    /\ Len(dispatched) = 2
    /\ TypeOf(dispatched[1]) = "email"
    /\ execution.results[dispatched[1]].status = "failed"
    /\ execution.results[dispatched[1]].error = <<"send failed">>
    /\ Has(execution.results, dispatched[2])

\* the error text of executeGitHubIssue when the issue-creation call fails
CreateIssueFailed == "failed to create github issue: "

\* C15: a failure of the issue-creation call of a dispatched github-issue
\* node does not move the execution to failed: it is recorded as status
\* failed in the result of the node.
C15_IssueFailureSoft ==
    \A i \in DOMAIN dispatched :
       TypeOf(dispatched[i]) = "github-issue" =>
          ~(/\ execution.status = "failed"
            /\ Len(execution.error) >= 4
            /\ execution.error[2] = dispatched[i]
            /\ execution.error[4] = CreateIssueFailed)

\* the positions of the trigger nodes in the nodes array
Triggers == {i \in DOMAIN workflow.nodes : workflow.nodes[i].type = "trigger"}

\* the workflow has one trigger, it is the only node without incoming edge
\* and it supplies a non-empty sourceUrl
SingleSource ==
    /\ Cardinality(Triggers) = 1
    /\ \A i \in Triggers :
          /\ ZeroInDegree(workflow.nodes, workflow.edges) = {workflow.nodes[i].id}
          /\ Str(workflow.nodes[i].data, "sourceUrl") # ""

SourceUrl == workflow.nodes[CHOOSE i \in Triggers : TRUE].data.sourceUrl

NoTargetErrors ==
    {"no target found for nmap", "no target found for nikto", "no target found for gobuster",
     "no target found for sqlmap", "no target found for wpscan",
     "no target found for IaC scan"}

\* C17: a node of the scanner family that is dispatched first, when no
\* prior result provides a target, fails with the no-target error, and the
\* execution fails at that node.
C17_ScannerNeedsTarget ==
    (dispatched # <<>> /\ TypeOf(dispatched[1]) \in ScannerTypes) =>
       /\ execution.status = "failed"
       /\ Len(execution.error) = 4
       /\ execution.error[2] = dispatched[1]
       /\ execution.error[4] \in NoTargetErrors
       /\ dispatched = <<dispatched[1]>>
       /\ results = EmptyMap

\* the closed tag set of executeNode
KnownTypes ==
    ScannerTypes \cup
    {"trigger", "email", "slack", "github-issue", "auto-fix", "flow-chart", "decision",
     "estimate-cost", "policy-check", "generate-iac", "drift-check", "generate-docs"}

\* C18: the dispatch of a node whose type is outside the tag set returns
\* the unknown-node-type error: the execution ends failed with an error
\* naming the node and its type, and the results of the earlier nodes, local
\* and persisted, stay as they were.
C18_UnknownTypeFails ==
    [][(dispatched' # dispatched /\ TypeOf(dispatched'[Len(dispatched')]) \notin KnownTypes) =>
          LET n == dispatched'[Len(dispatched')]
          IN  /\ execution'.status = "failed"
              /\ execution'.error = <<"Node ", n, " failed: ", "unknown node type: ", TypeOf(n)>>
              /\ execution'.results = execution.results
              /\ results' = results
              /\ ~Has(results', n)
              /\ pc' = "done"]_vars

\* the execution has failed at U, the node of the unknown type, and the
\* result of the trigger before it is still persisted
C18_Witness ==
    /\ workflow = UnknownTypeWorkflow
    /\ pc = "done"
    /\ execution.status = "failed"
    /\ execution.error = <<"Node ", "U", " failed: ", "unknown node type: ", "teleport">>
    /\ DOMAIN execution.results = {"T"}

\* a node lacks an id or a type, or an edge names an id that is no
\* declared node
Malformed ==
    \/ \E i \in DOMAIN workflow.nodes :
          workflow.nodes[i].id = "" \/ workflow.nodes[i].type = ""
    \/ \E i \in DOMAIN workflow.edges :
          ~({workflow.edges[i].source, workflow.edges[i].target}
              \subseteq DeclaredIds(workflow.nodes))

\* C19: a workflow in which a node lacks an id or a type or an edge names
\* an undeclared id is rejected: no node is visited, no handler is
\* dispatched, and the execution ends failed.
C19_MalformedRejected ==
    (execution # NoRecord /\ Malformed) =>
       /\ visited = <<>>
       /\ dispatched = <<>>
       /\ results = EmptyMap
       /\ pc = "done" => execution.status = "failed"

\* the ids before the current node in the execution order
BeforeCurrent ==
    {executionOrder[i] : i \in {k \in DOMAIN executionOrder :
                                  \E j \in DOMAIN executionOrder :
                                     k < j /\ executionOrder[j] = execution.current_node}}

\* C20: whenever the persisted current node is n, every node before n in
\* the execution order has an entry in the persisted results: the result of
\* a visited node, dispatched or skipped, is persisted before the controller
\* sets the current node to the next one.
C20_WriteThrough ==
    (visited # <<>> /\ execution.current_node = visited[Len(visited)]) =>
       \A n \in BeforeCurrent : Has(execution.results, n)

\* the node ids that have an entry in the persisted results
PersistedIds == DOMAIN execution.results \ {"ai_report", "ai_report_error"}

\* C21: at every moment the node ids in the persisted results are a prefix
\* of the execution order: no node has a persisted result while a node
\* earlier in the order has none.
C21_PersistedPrefix ==
    execution # NoRecord =>
       \E k \in 0..Len(executionOrder) :
          PersistedIds = {executionOrder[i] : i \in 1..k}

\* X is about to be dispatched while the skipped result of A, before it in
\* the order, is in the local results and not in the persisted ones
C21_Witness ==
    /\ workflow = SideBranchWorkflow
    /\ executionOrder = <<"D", "E", "A", "X">>
    /\ pc = "dispatch"
    /\ visited = executionOrder
    /\ Has(results, "A")
    /\ PersistedIds = {"D", "E"}

\* C22: the persisted current node is empty or the id of the node the
\* controller is processing; once the loop is over, and after the execution
\* has reached completed or failed, it names no node.
C22_CurrentNodeActive ==
    execution # NoRecord =>
       /\ pc \in {"complete", "done"} => execution.current_node = ""
       /\ execution.current_node # "" =>
             visited # <<>> /\ execution.current_node = visited[Len(visited)]

\* C23: in every state of the execution record the error is non-empty only
\* when the status is failed, and completed_at is set exactly when the
\* status is completed or failed.
C23_ErrorAndCompletedAt ==
    execution # NoRecord =>
       /\ execution.error # <<>> => execution.status = "failed"
       /\ execution.completed_at <=> execution.status \in Terminal

\* an execution has failed at a node: error and completed_at are set
C23_Witness ==
    /\ execution # NoRecord
    /\ execution.status = "failed"
    /\ execution.error # <<>>
    /\ execution.completed_at
    /\ dispatched # <<>>

\* the keys of the final report in results
ReportKeys == {"ai_report", "ai_report_error"}

\* some node whose state is completed has stored an output
CompletedOutput ==
    \E n \in DOMAIN results :
       Has(nodeStates, n) /\ nodeStates[n] = "completed" /\ Has(results[n], "output")

\* C24: when the loop has visited every node without a handler error, the
\* report step adds ai_report or, when the AI call fails, ai_report_error,
\* never both, and only when a node whose state is completed has an output
\* to summarise; it leaves the results of the nodes and the status alone,
\* and the execution then becomes completed.
C24_ReportFailureNotFatal ==
    /\ [](~({"ai_report", "ai_report_error"} \subseteq DOMAIN results))
    /\ [][(pc = "visit" /\ idx > Len(executionOrder)) =>
             /\ pc' = "complete"
             /\ execution'.status = "running"
             /\ execution'.error = <<>>
             /\ \A k \in DOMAIN results : Has(results', k) /\ results'[k] = results[k]
             /\ (DOMAIN results') \ (DOMAIN results) \subseteq ReportKeys
             /\ CompletedOutput <=> (DOMAIN results') \ (DOMAIN results) # {}]_vars
    /\ [][pc = "complete" =>
             /\ execution'.status = "completed"
             /\ execution'.results = results
             /\ pc' = "done"]_vars

\* an execution has ended completed with ai_report_error and no ai_report
\* in its persisted results
C24_Witness ==
    /\ pc = "done"
    /\ execution.status = "completed"
    /\ Has(execution.results, "ai_report_error")
    /\ ~Has(execution.results, "ai_report")

\* C25: the trigger handler fails exactly when node.data.sourceUrl is
\* present and empty; with sourceUrl missing it succeeds with the target
\* example.com, with a non-empty sourceUrl it succeeds with that target.
C25_TriggerSourceUrl ==
    \A i \in DOMAIN dispatched :
       LET n == dispatched[i]
           data == findNode(workflow.nodes, n).data
       IN  TypeOf(n) = "trigger" =>
              IF Has(data, "sourceUrl") /\ data["sourceUrl"] = ""
              THEN /\ ~Has(results, n)
                   /\ execution.status = "failed"
              ELSE /\ Has(results, n)
                   /\ results[n].target =
                         (IF Has(data, "sourceUrl") THEN data["sourceUrl"] ELSE "example.com")

\* the positions of the execution order whose result carries a non-empty
\* target
Targeted ==
    {i \in DOMAIN executionOrder :
        /\ Has(results, executionOrder[i])
        /\ Has(results[executionOrder[i]], "target")
        /\ results[executionOrder[i]].target # ""}

\* C26: at every dispatch, getTarget on the prior results returns the first
\* non-empty target in the execution order, and the empty string only when
\* no prior result carries a non-empty target.
C26_FirstNonEmptyTarget ==
    pc = "dispatch" =>
       getTarget(results) =
          {IF Targeted = {} THEN ""
           ELSE results[executionOrder[CHOOSE i \in Targeted :
                                          \A j \in Targeted : i <= j]].target}

RECURSIVE StoredCount(_, _)
\* the sum of data[field] over the prior results, whatever Go type the
\* handler stored the number with
StoredCount(previousResults, field) ==
    IF DOMAIN previousResults = {} THEN 0
    ELSE LET k == CHOOSE x \in DOMAIN previousResults : TRUE
             r == previousResults[k]
             rest == [x \in (DOMAIN previousResults) \ {k} |-> previousResults[x]]
         IN  (IF Has(r, "data") /\ Has(r.data, field) THEN r.data[field].n ELSE 0)
             + StoredCount(rest, field)

\* C27: a dispatched decision node with variable vulnerabilities records as
\* actual_value the sum of data.vulnerabilities_found and data.leaked_secrets
\* over the prior results, and as decision_result the comparison of that sum
\* with the threshold.
C27_VulnerabilitiesSum ==
    [][(dispatched' # dispatched
          /\ TypeOf(dispatched'[Len(dispatched')]) = "decision"
          /\ Str(findNode(workflow.nodes, dispatched'[Len(dispatched')]).data, "variable")
                = "vulnerabilities") =>
          LET n == dispatched'[Len(dispatched')]
              data == findNode(workflow.nodes, n).data
              sum == StoredCount(results, "vulnerabilities_found")
                     + StoredCount(results, "leaked_secrets")
          IN  /\ Has(results', n)
              /\ results'[n].actual_value = sum
              /\ results'[n].decision_result =
                    Evaluate(Str(data, "operator"), sum, ParseFloat(Str(data, "value")))]_vars
IsPrefix(s, t) == Len(s) <= Len(t) /\ s = SubSeq(t, 1, Len(s))

\* C29: in every dispatch of an auto-fix node the collaborator calls are an
\* initial part of GetFileContent, AnalyzeCode (only without a configured
\* vulnerability), GenerateFix, GetReference, CreateBranch, GetFileSHA,
\* UpdateFile, CreatePullRequest; when the handler fails after a call, the
\* error is the one of the last call made, so no call follows a failed one;
\* CreatePullRequest comes after CreateBranch and UpdateFile; and a result
\* with status created is returned only after all the calls.
C29_AutoFixCallOrder ==
    [][(pc = "dispatch" /\ TypeOf(executionOrder[idx]) = "auto-fix") =>
         LET node == findNode(workflow.nodes, executionOrder[idx])
             order == IF Str(node.data, "vulnerability") = ""
                      THEN <<"GetFileContent", "AnalyzeCode", "GenerateFix", "GetReference",
                             "CreateBranch", "GetFileSHA", "UpdateFile", "CreatePullRequest">>
                      ELSE <<"GetFileContent", "GenerateFix", "GetReference",
                             "CreateBranch", "GetFileSHA", "UpdateFile", "CreatePullRequest">>
         IN  /\ IsPrefix(calls', order)
             /\ (nodeStates'[node.id] = "failed" /\ calls' # <<>>) =>
                   /\ execution'.status = "failed"
                   /\ execution'.error[4] = AutoFixErrors[calls'[Len(calls')]]
             /\ "CreatePullRequest" \in Range(calls') =>
                   /\ Before(calls', "CreateBranch", "CreatePullRequest")
                   /\ Before(calls', "UpdateFile", "CreatePullRequest")
             /\ nodeStates'[node.id] = "completed" =>
                   /\ results'[node.id].status = "created"
                   /\ calls' = order
             /\ (nodeStates'[node.id] = "failed") # (nodeStates'[node.id] = "completed")]_vars

\* an auto-fix without a configured vulnerability that failed at CreateBranch:
\* five calls were made, GetFileSHA, UpdateFile and CreatePullRequest were not
C29_Witness ==
    /\ pc = "done"
    /\ execution.status = "failed"
    /\ dispatched # <<>>
    /\ TypeOf(dispatched[Len(dispatched)]) = "auto-fix"
    /\ nodeStates[dispatched[Len(dispatched)]] = "failed"
    /\ calls = <<"GetFileContent", "AnalyzeCode", "GenerateFix", "GetReference",
                 "CreateBranch">>
    /\ Len(execution.error) > 3
    /\ execution.error[4] = "failed to create branch: "

\* the answer a provider gives when the call named call reaches it
OutcomeOf(call) == IF call = "callGemini" THEN adapter.gemini ELSE adapter.groq

\* C30: for AnalyzeCode, GenerateSecurityRecommendations, GenerateFix,
\* GenerateDocumentation and GenerateWorkflowJSON with both keys configured,
\* when the provider tried first returns an error the other provider is
\* tried, and the operation succeeds when that one succeeds.
C30_FallbackToSecond ==
    (/\ pc = "answered"
     /\ answer.operation \in {"AnalyzeCode", "GenerateSecurityRecommendations", "GenerateFix",
                              "GenerateDocumentation", "GenerateWorkflowJSON"}
     /\ adapter.GeminiAPIKey # ""
     /\ adapter.GroqAPIKey # ""
     /\ OutcomeOf(calls[1]).err # <<>>)
    => /\ Len(calls) = 2
       /\ calls[2] # calls[1]
       /\ OutcomeOf(calls[2]).err = <<>> => answer.err = <<>>

\* C31: an operation of the adapter returns the error "no AI API keys
\* configured" exactly when neither key is configured; with a key configured
\* and every configured provider failing, the caller gets the error of a
\* provider, which differs from that one.
C31_NoKeysIffUnconfigured ==
    pc = "answered" =>
       /\ (answer.err = NoKeys.err) <=> (adapter.GeminiAPIKey = "" /\ adapter.GroqAPIKey = "")
       /\ (/\ adapter.GeminiAPIKey # "" \/ adapter.GroqAPIKey # ""
           /\ adapter.GeminiAPIKey # "" => callGemini(adapter).err # <<>>
           /\ adapter.GroqAPIKey # "" => callGroq(adapter).err # <<>>)
          => answer.err \in {callGemini(adapter).err, callGroq(adapter).err}

\* the tools ScannerService runs
Tools == {"nmap", "nikto", "gobuster", "sqlmap", "wpscan", "kube-bench", "trivy", "infracost"}

\* C32: for each of the tools nmap, nikto, gobuster, sqlmap, wpscan,
\* kube-bench, trivy and infracost, a node whose tool was not on PATH got the
\* mock output without an error: the node is completed, and the output
\* carries the [MOCK] marker and the target the tool was called with.
C32_MockMarked ==
    \A k \in DOMAIN results :
       (/\ Has(results[k], "output")
        /\ results[k].output.tool \in Tools
        /\ results[k].output.mock)
       => /\ nodeStates[k] = "completed"
          /\ results[k].output.marker = "[MOCK]"
          /\ results[k].output.target # ""
          /\ Has(results[k], "target") => results[k].output.target = results[k].target

\* C33: the persisted results only grow: every write of results keeps each
\* entry of the record as it was, so an entry an observer has seen is never
\* removed or altered.
C33_AppendOnly ==
    [][execution.status \in {"running", "completed", "failed"} =>
         \A k \in DOMAIN execution.results :
            /\ Has(execution'.results, k)
            /\ execution'.results[k] = execution.results[k]]_vars

\* C36: the handler of a node is dispatched at most once in an execution,
\* and a node that was skipped is never dispatched (nor a dispatched node
\* skipped).
C36_DispatchedAtMostOnce ==
    /\ \A i, j \in DOMAIN dispatched : dispatched[i] = dispatched[j] => i = j
    /\ \A i, j \in DOMAIN visited : visited[i] = visited[j] => i = j
    /\ \A i \in DOMAIN dispatched :
          /\ Has(nodeStates, dispatched[i]) => nodeStates[dispatched[i]] # "skipped"
          /\ (Has(results, dispatched[i]) /\ Has(results[dispatched[i]], "status"))
                => results[dispatched[i]].status # "skipped"
    /\ \A n \in DOMAIN nodeStates : nodeStates[n] = "skipped" => n \notin Range(dispatched)

\* the workflow D -> A, E -> X ended completed: A was skipped and never
\* dispatched, D, E and X were dispatched once each
C36_Witness ==
    /\ pc = "done"
    /\ workflow = SideBranchWorkflow
    /\ execution.status = "completed"
    /\ Len(dispatched) = 3
    /\ nodeStates["A"] = "skipped"
    /\ "A" \notin Range(dispatched)

\* C40: no node is skipped for a failed parent: while the loop reads the
\* states of the parents no node state is failed, since a handler error
\* ends the run, and the reason of every skipped result names a skipped
\* parent or a decision node that returned false.
C40_NoSkipForFailedParent ==
    /\ pc \in {"visit", "dispatch"} => \A n \in DOMAIN nodeStates : nodeStates[n] # "failed"
    /\ \A k \in DOMAIN results :
          (Has(results[k], "status") /\ results[k].status = "skipped") =>
             \E p \in Range(visited) :
                \/ results[k].reason = <<"Parent ", p, " was ", "skipped">>
                \/ /\ results[k].reason = <<"Decision node ", p, " returned false">>
                   /\ TypeOf(p) = "decision"

\* in D -> A -> B, after the decision D returned false, A was skipped for
\* the decision and B for its skipped parent A
C40_Witness ==
    /\ workflow = CascadeWorkflow
    /\ Has(results, "B")
    /\ results["A"].reason = <<"Decision node ", "D", " returned false">>
    /\ results["B"].reason = <<"Parent ", "A", " was ", "skipped">>

\* C37: when the pending record cannot be created, Execute returns an error
\* and no record, no background task is started, no handler is ever
\* dispatched and no execution record exists; when it can, Execute returns
\* the pending record before any node is visited or dispatched.
C37_CreateFailureStartsNothing ==
    /\ [](pc = "rejected" =>
            /\ returned = CreateFailed
            /\ execution = NoRecord
            /\ visited = <<>>
            /\ dispatched = <<>>)
    /\ [][pc = "rejected" => UNCHANGED vars]_vars
    /\ [](returned = CreateFailed => pc = "rejected")
    /\ [][pc = "idle" /\ pc' # "rejected" =>
            /\ pc' = "start"
            /\ returned'.status = "pending"
            /\ execution'.status = "pending"
            /\ visited' = <<>>
            /\ dispatched' = <<>>]_vars
    /\ [][returned.status = "pending" => returned' = returned]_vars

\* Execute was called with the linear workflow and could not create the
\* record
C37_Witness ==
    /\ pc = "rejected"
    /\ workflow = LinearWorkflow
    /\ returned.error # <<>>
    /\ execution = NoRecord

\* C34: the definition a running execution works on does not change: the
\* task keeps the struct the handler loaded, which holds the nodes and edges
\* stored when the workflow was executed; an update or a delete of the
\* stored workflow changes nothing of the run; the execution order is an
\* order of the loaded definition, the visited nodes are an initial part of
\* it and the dispatched nodes are among them.
C34_DefinitionImmutable ==
    /\ [][pc # "idle" => workflow' = workflow]_vars
    /\ [][pc = "idle" /\ pc' \in {"start", "rejected"} =>
            /\ workflow'.nodes = store.nodes
            /\ workflow'.edges = store.edges]_vars
    /\ [][store' # store =>
            UNCHANGED <<workflow, execution, pc, executionOrder, idx, results, nodeStates,
                        visited, dispatched, calls>>]_vars
    /\ [](pc \in {"visit", "dispatch", "complete", "done"} /\ execution.status # "failed" =>
            \E sorted \in topologicalSort(workflow.nodes, workflow.edges) :
               sorted.err = <<>> /\ sorted.order = executionOrder)
    /\ [](IsPrefix(visited, executionOrder))
    /\ [](Range(dispatched) \subseteq Range(visited))

\* the task, running the cascade workflow D -> A -> B, stands at the
\* dispatch of D while the stored workflow has been replaced by an empty
\* one and then deleted
C34_Witness ==
    /\ pc = "dispatch"
    /\ workflow.nodes = CascadeWorkflow.nodes
    /\ store.nodes = <<>>
    /\ ~store.exists
    /\ visited = <<"D">>

\* C35: the user id on the execution record is the owner of the workflow
\* definition, and it is the user id the node handlers are called with.
C35_OwnerIsHandlerUser ==
    execution # NoRecord =>
       /\ execution.UserID = store.user_id
       /\ execution.UserID = HandlerUser

\* bob's publish workflow, executed by bob, has ended completed
C35_Witness ==
    /\ pc = "done"
    /\ execution.status = "completed"
    /\ workflow.nodes = PublishWorkflow.nodes
    /\ store.user_id = "bob"
    /\ execution.UserID = "bob"
    /\ HandlerUser = "bob"
    /\ Len(dispatched) = 3

\* C38: once DeleteWorkflowExecution has removed the record, no write of
\* the running task creates it again: the record stays deleted and
\* GetExecution answers not found for every user.
C38_DeletedStaysDeleted ==
    /\ [][store.deleted => store'.deleted]_vars
    /\ [](store.deleted => \A userID \in Principals : GetExecution(userID) = NoRecord)

\* the record was deleted during the run and the task has gone on to its
\* final write
C38_Witness ==
    /\ store.deleted
    /\ pc = "done"
    /\ execution.status = "completed"
    /\ Len(dispatched) > 1
    /\ GetExecution(execution.UserID) = NoRecord

=============================================================================
